---- MODULE Spec2Model ----
(***************************************************************************)
(* Yard management: stock pool, per-stacker planning queues, stock          *)
(* ingestion and ETA computation (App.tsx, PlanningTab.tsx,                 *)
(* dataProcessor.ts).                                                       *)
(*                                                                          *)
(* Strings are sequences of one-character strings.  React state is the      *)
(* committed value of each useState hook plus the queue of updates that     *)
(* handlers have enqueued and the next render applies.                      *)
(***************************************************************************)
EXTENDS Integers, Sequences, FiniteSets, TLC

(***************************************************************************)
(* Characters and string helpers                                            *)
(***************************************************************************)
Digits == <<"0", "1", "2", "3", "4", "5", "6", "7", "8", "9">>

UpperChars == <<"A", "B", "C", "D", "E", "F", "G", "H", "I", "J", "K", "L", "M",
                "N", "O", "P", "Q", "R", "S", "T", "U", "V", "W", "X", "Y", "Z">>

LowerChars == <<"a", "b", "c", "d", "e", "f", "g", "h", "i", "j", "k", "l", "m",
                "n", "o", "p", "q", "r", "s", "t", "u", "v", "w", "x", "y", "z">>

Range(s) == {s[i] : i \in 1..Len(s)}

IndexOf(c, s) == CHOOSE i \in 1..Len(s) : s[i] = c

IsDigit(c) == c \in Range(Digits)

IsUpper(c) == c \in Range(UpperChars)

IsLower(c) == c \in Range(LowerChars)

DigitVal(c) == IndexOf(c, Digits) - 1

\* String.prototype.toUpperCase on one character
UpperChar(c) == IF IsLower(c) THEN UpperChars[IndexOf(c, LowerChars)] ELSE c

toUpperCase(s) == [i \in 1..Len(s) |-> UpperChar(s[i])]

\* String.prototype.includes
includes(s, t) == \E i \in 0..(Len(s) - Len(t)) : SubSeq(s, i + 1, i + Len(t)) = t

\* String.prototype.substring(0, n)
substring0(s, n) == SubSeq(s, 1, IF n < Len(s) THEN n ELSE Len(s))

\* String.prototype.slice(-n)
sliceLast(s, n) == SubSeq(s, (IF Len(s) > n THEN Len(s) - n ELSE 0) + 1, Len(s))

IsSpace(c) == c = " "

RECURSIVE TrimLeft(_)
TrimLeft(s) == IF s # <<>> /\ IsSpace(Head(s)) THEN TrimLeft(Tail(s)) ELSE s

RECURSIVE TrimRight(_)
TrimRight(s) ==
  IF s # <<>> /\ IsSpace(s[Len(s)]) THEN TrimRight(SubSeq(s, 1, Len(s) - 1)) ELSE s

\* String.prototype.trim
trim(s) == TrimRight(TrimLeft(s))

(***************************************************************************)
(* dataProcessor.ts                                                         *)
(***************************************************************************)
\* normalizeCntr without its toUpperCase call
normalizeCntr_KeepCase(val) ==
  IF val = <<>> THEN <<>>
  ELSE LET KeepChar(c) == IsUpper(c) \/ IsDigit(c)
       IN  SelectSeq(val, KeepChar)

\* normalizeCntr: upper-case, then drop every character outside [A-Z0-9]
normalizeCntr(val) ==
  IF val = <<>> THEN <<>>
  ELSE LET KeepChar(c) == IsUpper(c) \/ IsDigit(c)
       IN  SelectSeq(toUpperCase(val), KeepChar)

SemAgendamento == <<"S", "e", "m", " ", "A", "g", "e", "n", "d", "a", "m", "e", "n", "t", "o">>

NI == <<"N", "/", "I">>

CLIA == <<"C", "L", "I", "A">>

\* scheduleMap.get(cntr): the map is filled in schedule order, so the last
\* schedule item with that cntr is the one stored
ScheduleMatches(scheduleItems, cntr) ==
  {i \in 1..Len(scheduleItems) : scheduleItems[i].cntr = cntr}

\* The StockItem of a row reconciled with the first schedule item of its code
StockRowItems_FirstMatch(r, idx, scheduleItems) ==
  LET terminal == trim(r.terminal)
      local == r.local
      normalizedCntr == normalizeCntr(r.cntr)
      ms == ScheduleMatches(scheduleItems, normalizedCntr)
      match == scheduleItems[CHOOSE i \in ms : \A j \in ms : i <= j]
  IN  IF terminal # CLIA THEN <<>>
      ELSE IF local = <<>> \/ normalizedCntr = <<>> THEN <<>>
      ELSE << [id |-> <<idx, normalizedCntr>>,
               cntr |-> normalizedCntr,
               local |-> local,
               quadra |-> substring0(local, 2),
               bay |-> substring0(local, 4),
               pos |-> sliceLast(local, 2),
               servico |-> IF ms # {} THEN match.servico ELSE SemAgendamento,
               quadraBase |-> IF ms # {} THEN match.quadraFull ELSE NI] >>

\* The StockItem built from stock row r at index idx of rows.slice(1), or
\* <<>> when the row is discarded
StockRowItems(r, idx, scheduleItems) ==
  LET terminal == trim(r.terminal)
      local == r.local
      normalizedCntr == normalizeCntr(r.cntr)
      ms == ScheduleMatches(scheduleItems, normalizedCntr)
      match == scheduleItems[CHOOSE i \in ms : \A j \in ms : j <= i]
  IN  IF terminal # CLIA THEN <<>>
      ELSE IF local = <<>> \/ normalizedCntr = <<>> THEN <<>>
      ELSE << [id |-> <<idx, normalizedCntr>>,
               cntr |-> normalizedCntr,
               local |-> local,
               quadra |-> substring0(local, 2),
               bay |-> substring0(local, 4),
               pos |-> sliceLast(local, 2),
               servico |-> IF ms # {} THEN match.servico ELSE SemAgendamento,
               quadraBase |-> IF ms # {} THEN match.quadraFull ELSE NI] >>

\* rows.slice(1).map(...).filter(i => i !== null); rows excludes the header
RECURSIVE StockRowsFrom(_, _, _)
StockRowsFrom(rows, idx, scheduleItems) ==
  IF rows = <<>> THEN <<>>
  ELSE StockRowItems(Head(rows), idx, scheduleItems)
         \o StockRowsFrom(Tail(rows), idx + 1, scheduleItems)

processStockFile(rows, scheduleItems) == StockRowsFrom(rows, 0, scheduleItems)


(***************************************************************************)
(* Input files offered to the upload handlers (data rows, header removed)   *)
(***************************************************************************)
StockFileA ==
  << [terminal |-> <<"C", "L", "I", "A">>,
      local |-> <<"A", "1", "0", "1", "A", "1">>, cntr |-> <<"a", "b", "-", "1">>],
     [terminal |-> <<"T", "E", "C", "O", "N">>,
      local |-> <<"A", "1", "0", "1", "B", "1">>, cntr |-> <<"X", "Y", "9">>],
     [terminal |-> <<" ", "C", "L", "I", "A", " ">>,
      local |-> <<"A", "1", "0", "1", "A", "2">>, cntr |-> <<"C", "D", "2">>] >>

StockFileB ==
  << [terminal |-> <<"C", "L", "I", "A">>,
      local |-> <<"A", "1", "0", "2", "C", "1">>, cntr |-> <<"A", "B", "1">>],
     [terminal |-> <<"C", "L", "I", "A">>,
      local |-> <<>>, cntr |-> <<"G", "H", "4">>] >>

StockFiles == {StockFileA, StockFileB}

\* Texts typed into the stock search box
StockSearchTerms == {<<>>, <<" ", "c", "d">>}

StackerIds == {"1", "2", "3"}

\* Object.values(planningState): integer-like keys in ascending order
StackerOrder == <<"1", "2", "3">>


(***************************************************************************)
(* Bounds                                                                   *)
(***************************************************************************)
\* Largest number of item occurrences (pool plus all queues) explored
MaxUnits == 3

\* Largest number of stock ingestions explored
MaxUploads == 2

(***************************************************************************)
(* State                                                                    *)
(***************************************************************************)
VARIABLES
  scheduleData,     \* App: useState<ScheduleItem[]>
  completedItems,   \* App: useState<Set<string>>, identities of the checked services
  scheduleRead,     \* schedule file reads started and not yet resolved (at most one)
  stockData,        \* App: useState<StockItem[]>, the stock pool
  planningState,    \* App: useState<PlanningState>, one queue per stacker
  activeStacker,    \* PlanningTab: useState<StackerId>
  viewQuadra,       \* PlanningTab: quadra shown in the modal, <<>> for null
  dragData,         \* dataTransfer 'application/json' of the drag in progress
  inflight,         \* file reads started and not yet resolved (at most one)
  updates,          \* state updates enqueued by a handler, applied by the next render
  last,             \* the planning or ingestion handler the latest event ran, NoOp for
                    \* an event that ran another handler; ok tells whether it found
                    \* what it was called for (dragged items all in the pool,
                    \* removed item in the queue)
  uploads,          \* number of stock ingestions committed so far
  ingested,         \* identities of all stock items ingested so far
  config,           \* PlanningTab: useState<ConfigState>
  etaIndex,         \* argument of the last getEstimatedTime call
  etaOut,           \* its result
  viewIn,           \* the derived view (useMemo or render helper) evaluated last
                    \* and its arguments
  viewOut           \* its result

vars == <<scheduleData, completedItems, scheduleRead, stockData, planningState, activeStacker, viewQuadra,
          dragData, inflight, updates, last, uploads, ingested, config,
          etaIndex, etaOut, viewIn, viewOut>>

appVars == <<scheduleData, completedItems, scheduleRead, stockData, planningState, activeStacker, viewQuadra,
             dragData, inflight, updates, last, uploads, ingested>>

\* The schedule collection, the completed set and the schedule read in flight
scheduleVars == <<scheduleData, completedItems, scheduleRead>>

\* What only the render changes
histVars == <<uploads, ingested>>

etaVars == <<config, etaIndex, etaOut, viewIn, viewOut>>

viewVars == <<viewIn, viewOut>>

\* No derived view evaluated yet
NoView == [fn |-> "none"]

DefaultConfig ==
  [m \in StackerIds |-> [start |-> <<"0", "8", ":", "0", "0">>, mph |-> 15]]

NoOp == [op |-> "init", m |-> "1", items |-> <<>>, id |-> <<>>, ok |-> TRUE]

InitApp ==
  /\ scheduleData = <<>>
  /\ completedItems = {}
  /\ scheduleRead = <<>>
  /\ stockData = <<>>
  /\ planningState = [m \in StackerIds |-> <<>>]
  /\ activeStacker = "1"
  /\ viewQuadra = <<>>
  /\ dragData = <<>>
  /\ inflight = <<>>
  /\ updates = <<>>
  /\ last = NoOp
  /\ uploads = 0
  /\ ingested = {}

(***************************************************************************)
(* React: queued state updates and their application by the next render     *)
(***************************************************************************)
HasId(items, id) == \E k \in 1..Len(items) : items[k].id = id

\* One queued update of the stockData hook applied to its previous value
ApplyStockUpdate(u, prev) ==
  CASE u.op = "set" -> u.items
    [] u.op = "append" -> prev \o u.items
    [] u.op = "filterOut" ->
         LET Keep(x) == ~HasId(u.items, x.id) IN SelectSeq(prev, Keep)

\* The queue update of handleDrop putting the dropped items first
ApplyPlanUpdate_Prepend(u, prev) ==
  CASE u.op = "appendTo" -> [prev EXCEPT ![u.m] = u.items \o prev[u.m]]
    [] u.op = "removeId" ->
         LET Keep(x) == x.id # u.id
         IN  [prev EXCEPT ![u.m] = SelectSeq(prev[u.m], Keep)]
    [] u.op = "clear" -> [prev EXCEPT ![u.m] = <<>>]

\* One queued update of the planningState hook applied to its previous value
ApplyPlanUpdate(u, prev) ==
  CASE u.op = "appendTo" -> [prev EXCEPT ![u.m] = prev[u.m] \o u.items]
    [] u.op = "removeId" ->
         LET Keep(x) == x.id # u.id
         IN  [prev EXCEPT ![u.m] = SelectSeq(prev[u.m], Keep)]
    [] u.op = "clear" -> [prev EXCEPT ![u.m] = <<>>]

RECURSIVE ReduceStock(_, _)
ReduceStock(us, prev) ==
  IF us = <<>> THEN prev
  ELSE ReduceStock(Tail(us),
         IF Head(us).hook = "stockData" THEN ApplyStockUpdate(Head(us), prev) ELSE prev)

RECURSIVE ReducePlan(_, _)
ReducePlan(us, prev) ==
  IF us = <<>> THEN prev
  ELSE ReducePlan(Tail(us),
         IF Head(us).hook = "planningState" THEN ApplyPlanUpdate(Head(us), prev) ELSE prev)

\* setCompletedItems(new Set()) leaving the set as it was
ApplyCompletedUpdate_KeepOnReset(u, prev) ==
  CASE u.op = "reset" -> prev
    [] u.op = "toggle" -> IF u.id \in prev THEN prev \ {u.id} ELSE prev \cup {u.id}

\* One queued update of the completedItems hook applied to its previous value:
\* new Set() of handleScheduleUpload or the updater of toggleItemCompletion
ApplyCompletedUpdate(u, prev) ==
  CASE u.op = "reset" -> {}
    [] u.op = "toggle" -> IF u.id \in prev THEN prev \ {u.id} ELSE prev \cup {u.id}

\* The scheduleData hook after its queued updates, each a setScheduleData(data)
ReduceSchedule(us, prev) ==
  LET IsSet(u) == u.hook = "scheduleData"
      sets == SelectSeq(us, IsSet)
  IN  IF sets = <<>> THEN prev ELSE sets[Len(sets)].items

RECURSIVE ReduceCompleted(_, _)
ReduceCompleted(us, prev) ==
  IF us = <<>> THEN prev
  ELSE ReduceCompleted(Tail(us),
         IF Head(us).hook = "completedItems" THEN ApplyCompletedUpdate(Head(us), prev)
         ELSE prev)

\* Number of item occurrences in the pool and the queues
TotalUnits(sd, ps) == Len(sd) + Len(ps["1"]) + Len(ps["2"]) + Len(ps["3"])

\* The updates us stay within the explored bound
WithinBound(us) ==
  TotalUnits(ReduceStock(us, stockData), ReducePlan(us, planningState)) <= MaxUnits

\* The render following a handler: every hook processes its whole update
\* queue before anything is committed
\* Identities of a list of items
IdsOf(items) == {items[k].id : k \in 1..Len(items)}

\* The pending updates that replace the stock pool by an ingested file
StockSets(us) ==
  LET IsSet(u) == u.hook = "stockData" /\ u.op = "set" IN SelectSeq(us, IsSet)

Render ==
  /\ updates # <<>>
  /\ stockData' = ReduceStock(updates, stockData)
  /\ planningState' = ReducePlan(updates, planningState)
  /\ updates' = <<>>
  /\ uploads' = uploads + Len(StockSets(updates))
  /\ ingested' = ingested \cup UNION {IdsOf(StockSets(updates)[k].items) :
                                        k \in 1..Len(StockSets(updates))}
  /\ scheduleData' = ReduceSchedule(updates, scheduleData)
  /\ completedItems' = ReduceCompleted(updates, completedItems)
  /\ UNCHANGED <<scheduleRead, activeStacker, viewQuadra, dragData,
                 inflight, last, etaVars>>

\* A user event is dispatched only after the previous event's updates were
\* flushed, and not while a drag is in progress
Idle == updates = <<>> /\ dragData = <<>>


(***************************************************************************)
(* PlanningTab: derived views                                               *)
(***************************************************************************)
\* Collation weight of a character: level 1 orders digits before letters and
\* letters alphabetically whatever their case, level 2 puts the lower-case
\* letter before the upper-case one
CollationKey(c, level) ==
  IF level = 1
    THEN (IF IsDigit(c) THEN 1 + DigitVal(c)
          ELSE IF IsUpper(c) THEN 10 + IndexOf(c, UpperChars)
          ELSE IF IsLower(c) THEN 10 + IndexOf(c, LowerChars)
          ELSE 0)
    ELSE (IF IsUpper(c) THEN 1 ELSE 0)

RECURSIVE CompareLevel(_, _, _)
CompareLevel(s, t, level) ==
  IF s = <<>> /\ t = <<>> THEN 0
  ELSE IF s = <<>> THEN -1
  ELSE IF t = <<>> THEN 1
  ELSE IF CollationKey(Head(s), level) < CollationKey(Head(t), level) THEN -1
  ELSE IF CollationKey(Head(s), level) > CollationKey(Head(t), level) THEN 1
  ELSE CompareLevel(Tail(s), Tail(t), level)

\* String.prototype.localeCompare on alphanumeric strings
localeCompare(s, t) ==
  IF CompareLevel(s, t, 1) # 0 THEN CompareLevel(s, t, 1) ELSE CompareLevel(s, t, 2)

\* Stable insertion of x, which follows every unit of s in the bay's list
RECURSIVE InsertUnit(_, _)
InsertUnit(x, s) ==
  IF s = <<>> THEN <<x>>
  ELSE IF localeCompare(x.pos, Head(s).pos) > 0 THEN <<x>> \o s
  ELSE <<Head(s)>> \o InsertUnit(x, Tail(s))

RECURSIVE SortUnitsFrom(_, _)
SortUnitsFrom(units, acc) ==
  IF units = <<>> THEN acc ELSE SortUnitsFrom(Tail(units), InsertUnit(Head(units), acc))

\* [...units].sort((a, b) => b.pos.localeCompare(a.pos))
sortedUnits(units) == SortUnitsFrom(units, <<>>)

\* stockTree: the pool items passing the filter of the search box, which
\* holds the text stockSearchTerm
filteredItems(stockSearchTerm) ==
  LET term == trim(toUpperCase(stockSearchTerm))
      Match(item) == includes(item.cntr, term) \/ includes(toUpperCase(item.servico), term)
  IN  IF term # <<>> THEN SelectSeq(stockData, Match) ELSE stockData

\* stockTree[quadra][bay]
stockTree(stockSearchTerm, quadra, bay) ==
  LET InBay(item) == item.quadra = quadra /\ item.bay = bay
  IN  SelectSeq(filteredItems(stockSearchTerm), InBay)

\* Object.keys(stockTree)
TreeQuadras(stockSearchTerm) ==
  {filteredItems(stockSearchTerm)[k].quadra : k \in 1..Len(filteredItems(stockSearchTerm))}

\* Object.values(planningState).flat()
plannedItems == planningState["1"] \o planningState["2"] \o planningState["3"]

\* quadraViewData: the items laid out in the grid of the viewed quadra
allItems ==
  LET InQuadra(i) == i.quadra = viewQuadra
  IN  SelectSeq(stockData, InQuadra) \o SelectSeq(plannedItems, InQuadra)

(***************************************************************************)
(* PlanningTab: handlers                                                    *)
(***************************************************************************)
\* setActiveStacker
SelectStacker(m) ==
  /\ Idle
  /\ m # activeStacker
  /\ activeStacker' = m
  /\ last' = NoOp
  /\ UNCHANGED <<scheduleVars, stockData, planningState, viewQuadra,
                 dragData, inflight, updates, histVars, etaVars>>

\* setViewQuadra(qName) from a quadra header or handleOpenBayView
OpenQuadraView(q) ==
  /\ Idle
  /\ \E t \in StockSearchTerms : q \in TreeQuadras(t)
  /\ q # viewQuadra
  /\ viewQuadra' = q
  /\ last' = NoOp
  /\ UNCHANGED <<scheduleVars, stockData, planningState, activeStacker,
                 dragData, inflight, updates, histVars, etaVars>>

\* setViewQuadra(null)
CloseQuadraView ==
  /\ Idle
  /\ viewQuadra # <<>>
  /\ viewQuadra' = <<>>
  /\ last' = NoOp
  /\ UNCHANGED <<scheduleVars, stockData, planningState, activeStacker,
                 dragData, inflight, updates, histVars, etaVars>>

\* handleDragStart from a stock tree card, the search box holding the text
\* t: the card's unit and the units listed above it in its bay
DragStartTree(t, quadra, bay, idx) ==
  /\ Idle
  /\ idx \in 0..(Len(stockTree(t, quadra, bay)) - 1)
  /\ dragData' = SubSeq(sortedUnits(stockTree(t, quadra, bay)), 1, idx + 1)
  /\ last' = NoOp
  /\ UNCHANGED <<scheduleVars, stockData, planningState, activeStacker, viewQuadra,
                 inflight, updates, histVars, etaVars>>

\* handleDragStart from a cell of the quadra grid
DragStartGrid(k) ==
  /\ Idle
  /\ viewQuadra # <<>>
  /\ k \in 1..Len(allItems)
  /\ dragData' = <<allItems[k]>>
  /\ last' = NoOp
  /\ UNCHANGED <<scheduleVars, stockData, planningState, activeStacker, viewQuadra,
                 inflight, updates, histVars, etaVars>>

\* handleDragEnd of a drag released outside the drop zone
DragEnd ==
  /\ updates = <<>>
  /\ dragData # <<>>
  /\ dragData' = <<>>
  /\ last' = NoOp
  /\ UNCHANGED <<scheduleVars, stockData, planningState, activeStacker, viewQuadra,
                 inflight, updates, histVars, etaVars>>

\* handleDrop without its setStockData call
DropUpdates_PlanOnly(items, m) ==
  << [hook |-> "planningState", op |-> "appendTo", m |-> m, items |-> items] >>

\* The two updates handleDrop enqueues for the dragged items
DropUpdates(items, m) ==
  << [hook |-> "planningState", op |-> "appendTo", m |-> m, items |-> items],
     [hook |-> "stockData", op |-> "filterOut", items |-> items] >>

handleDrop ==
  /\ updates = <<>>
  /\ dragData # <<>>
  /\ WithinBound(DropUpdates(dragData, activeStacker))
  /\ updates' = DropUpdates(dragData, activeStacker)
  /\ dragData' = <<>>
  /\ last' = [op |-> "drop", m |-> activeStacker, items |-> dragData, id |-> <<>>,
              ok |-> \A k \in 1..Len(dragData) : HasId(stockData, dragData[k].id)]
  /\ UNCHANGED <<scheduleVars, stockData, planningState, activeStacker, viewQuadra,
                 inflight, histVars, etaVars>>

\* The lookup of handleRemoveFromPlan searching the queues of all stackers
FindInPlan_AnyQueue(m, itemId) ==
  LET q == planningState["1"] \o planningState["2"] \o planningState["3"]
      hits == {k \in 1..Len(q) : q[k].id = itemId}
  IN  IF hits = {} THEN <<>> ELSE <<q[CHOOSE k \in hits : \A j \in hits : k <= j]>>

\* planningState[activeStacker].find(i => i.id === itemId), <<>> for undefined
FindInPlan(m, itemId) ==
  LET q == planningState[m]
      hits == {k \in 1..Len(q) : q[k].id = itemId}
  IN  IF hits = {} THEN <<>> ELSE <<q[CHOOSE k \in hits : \A j \in hits : k <= j]>>

\* handleRemoveFromPlan without its setStockData call
RemoveUpdates_NoReturn(found, m, itemId) ==
  IF found = <<>> THEN <<>>
  ELSE << [hook |-> "planningState", op |-> "removeId", m |-> m, id |-> itemId] >>


RemoveUpdates(found, m, itemId) ==
  IF found = <<>> THEN <<>>
  ELSE << [hook |-> "stockData", op |-> "append", items |-> found],
          [hook |-> "planningState", op |-> "removeId", m |-> m, id |-> itemId] >>

handleRemoveFromPlan(itemId) ==
  /\ Idle
  /\ updates' = RemoveUpdates(FindInPlan(activeStacker, itemId), activeStacker, itemId)
  /\ last' = [op |-> "remove", m |-> activeStacker, items |-> <<>>, id |-> itemId,
              ok |-> HasId(planningState[activeStacker], itemId)]
  /\ UNCHANGED <<scheduleVars, stockData, planningState, activeStacker, viewQuadra,
                 dragData, inflight, histVars, etaVars>>

\* handleClearPlan without its setStockData call
ClearUpdates_NoReturn(items, m) ==
  << [hook |-> "planningState", op |-> "clear", m |-> m] >>


ClearUpdates(items, m) ==
  << [hook |-> "stockData", op |-> "append", items |-> items],
     [hook |-> "planningState", op |-> "clear", m |-> m] >>

handleClearPlan ==
  /\ Idle
  /\ updates' = ClearUpdates(planningState[activeStacker], activeStacker)
  /\ last' = [op |-> "clear", m |-> activeStacker, items |-> planningState[activeStacker],
              id |-> <<>>, ok |-> TRUE]
  /\ UNCHANGED <<scheduleVars, stockData, planningState, activeStacker, viewQuadra,
                 dragData, inflight, histVars, etaVars>>

(***************************************************************************)
(* App: upload handlers                                                     *)
(***************************************************************************)
\* handleStockUpload up to its await: the file is read and reconciled against
\* the scheduleData of the current render
StartStockUpload(file) ==
  /\ Idle
  /\ inflight = <<>>
  /\ uploads < MaxUploads
  /\ inflight' = <<[kind |-> "stock", items |-> processStockFile(file, scheduleData)]>>
  /\ last' = NoOp
  /\ UNCHANGED <<scheduleVars, stockData, planningState, activeStacker, viewQuadra,
                 dragData, updates, histVars, etaVars>>

StockUploadUpdates(data) == <<[hook |-> "stockData", op |-> "set", items |-> data]>>

\* handleStockUpload after its await: setStockData(data)
FinishStockUpload ==
  /\ updates = <<>>
  /\ inflight # <<>>
  /\ inflight[1].kind = "stock"
  /\ WithinBound(StockUploadUpdates(inflight[1].items))
  /\ updates' = StockUploadUpdates(inflight[1].items)
  /\ inflight' = <<>>
  /\ last' = [op |-> "stock", m |-> activeStacker, items |-> inflight[1].items, id |-> <<>>,
              ok |-> TRUE]
  /\ UNCHANGED <<scheduleVars, stockData, planningState, activeStacker, viewQuadra,
                 dragData, histVars, etaVars>>

(***************************************************************************)
(* IEEE 754 double arithmetic on the values getEstimatedTime computes.      *)
(* A non-negative double is [bits, exp]: the binary digits of an integer,   *)
(* most significant first, at most MantissaBits of them, and the power of   *)
(* two that scales it; zero has no digits.                                  *)
(***************************************************************************)
MantissaBits == 53

\* Digits are added and multiplied in groups of LimbBits digits
LimbBits == 20

Zeros(n) == [k \in 1..n |-> 0]

\* The w-digit binary numeral of n < 2^w
FixedBits(n, w) == [k \in 1..w |-> (n \div 2^(w - k)) % 2]

BitLength(n) == Cardinality({k \in 0..30 : 2^k <= n})

IntToBits(n) == FixedBits(n, BitLength(n))

RECURSIVE BitsToInt(_)
BitsToInt(b) ==
  IF b = <<>> THEN 0
  ELSE IF Len(b) = 1 THEN b[1]
  ELSE LET h == Len(b) \div 2
       IN  BitsToInt(SubSeq(b, 1, h)) * 2^(Len(b) - h) + BitsToInt(SubSeq(b, h + 1, Len(b)))

StripZeros(b) ==
  LET ones == {k \in 1..Len(b) : b[k] = 1}
  IN  IF ones = {} THEN <<>>
      ELSE SubSeq(b, CHOOSE k \in ones : \A j \in ones : k <= j, Len(b))

\* b + 1
IncBits(b) ==
  LET zs == {k \in 1..Len(b) : b[k] = 0}
      p == CHOOSE k \in zs : \A j \in zs : j <= k
  IN  IF zs = {} THEN <<1>> \o Zeros(Len(b))
      ELSE [k \in 1..Len(b) |-> IF k < p THEN b[k] ELSE IF k = p THEN 1 ELSE 0]

\* The j-th group of LimbBits digits of b, counted from the least significant
LimbAt(b, j) ==
  LET n == IF Len(b) < LimbBits * j THEN LimbBits * j ELSE Len(b)
      padded == Zeros(n - Len(b)) \o b
  IN  BitsToInt(SubSeq(padded, n - LimbBits * j + 1, n - LimbBits * (j - 1)))

NumLimbs(b) == (Len(b) + LimbBits - 1) \div LimbBits

\* Round the exact value b * 2^k (plus a non-zero amount below its last digit
\* when sticky) to the nearest double, ties to even
RoundToDouble(b, k, sticky) ==
  IF Len(b) <= MantissaBits THEN [bits |-> b, exp |-> k]
  ELSE LET keep == SubSeq(b, 1, MantissaBits)
           rest == SubSeq(b, MantissaBits + 1, Len(b))
           below == sticky \/ \E j \in 2..Len(rest) : rest[j] = 1
           roundUp == rest[1] = 1 /\ (below \/ keep[MantissaBits] = 1)
           m == IF roundUp THEN IncBits(keep) ELSE keep
           drop == Len(b) - MantissaBits
       IN  IF Len(m) > MantissaBits
             THEN [bits |-> SubSeq(m, 1, MantissaBits), exp |-> k + drop + 1]
             ELSE [bits |-> m, exp |-> k + drop]

\* 2^k modulo d
RECURSIVE Pow2Mod(_, _)
Pow2Mod(k, d) ==
  IF k = 0 THEN 1 % d
  ELSE LET h == Pow2Mod(k \div 2, d)
       IN  (h * h * (IF k % 2 = 1 THEN 2 ELSE 1)) % d

\* The first count binary digits of rem / d after the point, rem < d
FracBits(rem, d, count) ==
  [k \in 1..count |-> IF 2 * ((rem * Pow2Mod(k - 1, d)) % d) >= d THEN 1 ELSE 0]

\* The remainder left after those digits
FracRem(rem, d, count) == (rem * Pow2Mod(count, d)) % d

\* n / d for integers n >= 0, d >= 1
DivDouble(n, d) ==
  LET F == MantissaBits + 11
  IN  RoundToDouble(StripZeros(IntToBits(n \div d) \o FracBits(n % d, d, F)), -F,
                    FracRem(n % d, d, F) # 0)

\* The digits of b * i, from its j-th group of digits on, plus carry
RECURSIVE MulBits(_, _, _, _)
MulBits(b, i, j, carry) ==
  IF j > NumLimbs(b) THEN IntToBits(carry)
  ELSE LET v == LimbAt(b, j) * i + carry
       IN  MulBits(b, i, j + 1, v \div 2^LimbBits) \o FixedBits(v % 2^LimbBits, LimbBits)

\* i * i * x: the delay growing with the square of the index
MulDouble_Square(i, x) ==
  RoundToDouble(StripZeros(MulBits(x.bits, i * i, 1, 0)), x.exp, FALSE)

\* i * x for an integer i >= 0
MulDouble(i, x) == RoundToDouble(StripZeros(MulBits(x.bits, i, 1, 0)), x.exp, FALSE)

\* The digits of a + b, from their j-th groups of digits on, plus carry
RECURSIVE AddBits(_, _, _, _)
AddBits(a, b, j, carry) ==
  IF j > NumLimbs(a) /\ j > NumLimbs(b) THEN IntToBits(carry)
  ELSE LET v == LimbAt(a, j) + LimbAt(b, j) + carry
       IN  AddBits(a, b, j + 1, v \div 2^LimbBits) \o FixedBits(v % 2^LimbBits, LimbBits)

\* m + x for an integer m >= 0
AddDouble(m, x) ==
  IF x.bits = <<>> THEN [bits |-> IntToBits(m), exp |-> 0]
  ELSE IF x.exp >= 0
    THEN RoundToDouble(StripZeros(AddBits(x.bits \o Zeros(x.exp), IntToBits(m), 1, 0)),
                       0, FALSE)
    ELSE RoundToDouble(StripZeros(AddBits(x.bits, IntToBits(m) \o Zeros(-x.exp), 1, 0)),
                       x.exp, FALSE)

\* ToIntegerOrInfinity of a non-negative double: the fraction is dropped
TruncDouble(x) ==
  IF x.bits = <<>> THEN 0
  ELSE IF x.exp >= 0 THEN BitsToInt(x.bits \o Zeros(x.exp))
  ELSE IF Len(x.bits) + x.exp <= 0 THEN 0
  ELSE BitsToInt(SubSeq(x.bits, 1, Len(x.bits) + x.exp))

(***************************************************************************)
(* PlanningTab: getEstimatedTime                                            *)
(***************************************************************************)
activeConfig == config[activeStacker]

\* const mph = activeConfig.mph || 1
mph == IF activeConfig.mph = 0 THEN 1 ELSE activeConfig.mph

InvalidDate == <<"I", "n", "v", "a", "l", "i", "d", " ", "D", "a", "t", "e">>

\* new Date(`2026-01-01T${start}:00`) is a valid date when start is HH:MM
ValidStart(start) ==
  /\ Len(start) = 5
  /\ start[3] = ":"
  /\ \A k \in {1, 2, 4, 5} : IsDigit(start[k])
  /\ 10 * DigitVal(start[1]) + DigitVal(start[2]) <= 23
  /\ 10 * DigitVal(start[4]) + DigitVal(start[5]) <= 59

startHours(start) == 10 * DigitVal(start[1]) + DigitVal(start[2])

startMinutes(start) == 10 * DigitVal(start[4]) + DigitVal(start[5])

\* Two-digit rendering of an hour or minute
TwoDigits(n) == <<Digits[(n \div 10) + 1], Digits[(n % 10) + 1]>>

\* toLocaleTimeString(hour: '2-digit', minute: '2-digit') of the time of day
\* that lies totalMinutes after midnight of 2026-01-01, on a 24-hour clock
toLocaleTimeString(totalMinutes) ==
  TwoDigits((totalMinutes % 1440) \div 60) \o <<":">> \o TwoDigits(totalMinutes % 60)

\* setMinutes rounding the minute count to the nearest integer
setMinutesValue_Nearest(minutes, minutesToAdd) ==
  LET x == AddDouble(minutes, minutesToAdd)
      half == Len(x.bits) + x.exp + 1
  IN  TruncDouble(x)
        + (IF x.bits # <<>> /\ x.exp < 0 /\ half >= 1 /\ x.bits[half] = 1 THEN 1 ELSE 0)

\* setMinutes(getMinutes() + minutesToAdd): the minute count is truncated
setMinutesValue(minutes, minutesToAdd) == TruncDouble(AddDouble(minutes, minutesToAdd))

getEstimatedTime(index) ==
  LET start == activeConfig.start
      minutesToAdd == MulDouble(index, DivDouble(60, mph))
  IN  IF ~ValidStart(start) THEN InvalidDate
      ELSE toLocaleTimeString(60 * startHours(start)
                                + setMinutesValue(startMinutes(start), minutesToAdd))

\* One evaluation of getEstimatedTime(index) by the render or the export
EstimateTime(index) ==
  /\ etaIndex' = index
  /\ etaOut' = getEstimatedTime(index)
  /\ UNCHANGED <<appVars, config, viewVars>>

(***************************************************************************)
(* Specification of the planning application                                *)
(***************************************************************************)
\* Identities handleRemoveFromPlan is called with
ItemIds ==
  {<<0, <<"A", "B", "1">>>>, <<2, <<"C", "D", "2">>>>, <<7, <<"Z", "Z", "7">>>>}

Quadras == {<<"A", "1">>}

Bays == {<<"A", "1", "0", "1">>, <<"A", "1", "0", "2">>}

Init ==
  /\ InitApp
  /\ config = DefaultConfig
  /\ etaIndex = 0
  /\ etaOut = <<>>
  /\ viewIn = NoView
  /\ viewOut = <<>>

Next ==
  \/ \E m \in StackerIds : SelectStacker(m)
  \/ \E q \in Quadras : OpenQuadraView(q)
  \/ CloseQuadraView
  \/ \E t \in StockSearchTerms, q \in Quadras, b \in Bays, idx \in 0..(MaxUnits - 1) :
       DragStartTree(t, q, b, idx)
  \/ \E k \in 1..MaxUnits : DragStartGrid(k)
  \/ DragEnd
  \/ handleDrop
  \/ \E id \in ItemIds : handleRemoveFromPlan(id)
  \/ handleClearPlan
  \/ \E f \in StockFiles : StartStockUpload(f)
  \/ FinishStockUpload
  \/ Render

Spec == Init /\ [][Next]_vars

(***************************************************************************)
(* Specification of getEstimatedTime over stacker configurations           *)
(***************************************************************************)
\* Largest rate of the contiguous range of rates explored
MaxRate == 12

\* Largest queue index explored
MaxIndex == 12

EtaRates == (1..MaxRate) \cup {15, 60, 61}

EtaStarts ==
  {<<"0", "8", ":", "0", "0">>, <<"0", "8", ":", "3", "0">>,
   <<"2", "3", ":", "5", "0">>, <<>>}

InitEta ==
  /\ InitApp
  /\ \E s \in EtaStarts, r \in EtaRates :
       config = [DefaultConfig EXCEPT !["1"] = [start |-> s, mph |-> r]]
  /\ etaIndex = 0
  /\ etaOut = <<>>
  /\ viewIn = NoView
  /\ viewOut = <<>>

NextEta == \E index \in 0..MaxIndex : EstimateTime(index)

SpecEta == InitEta /\ [][NextEta]_vars

(***************************************************************************)
(* Properties                                                               *)
(***************************************************************************)
PoolCount(id) == Cardinality({k \in 1..Len(stockData) : stockData[k].id = id})

QueueCount(m, id) ==
  Cardinality({k \in 1..Len(planningState[m]) : planningState[m][k].id = id})

InPool(id) == HasId(stockData, id)

InQueue(m, id) == HasId(planningState[m], id)

\* Number of occurrences of an identity in the pool and the queues
Places(id) == PoolCount(id) + QueueCount("1", id) + QueueCount("2", id) + QueueCount("3", id)

\* Identities found in the pool or in a queue
PresentIds == IdsOf(stockData) \cup IdsOf(plannedItems)

PlanningOps == {"drop", "remove", "clear"}

\* The handler op has run and the render that commits its updates is next
Committing(op) == updates # <<>> /\ last.op = op

\* s without the items whose identity is in ids, order kept
RECURSIVE Without(_, _)
Without(s, ids) ==
  IF s = <<>> THEN <<>>
  ELSE (IF Head(s).id \in ids THEN <<>> ELSE <<Head(s)>>) \o Without(Tail(s), ids)

\* C1: after one ingestion and any sequence of Assign, Unassign and ClearQueue
\* calls, every ingested identity occurs exactly once in the pool and the
\* queues taken together.
C1_ExactlyOnePlace == uploads = 1 => \A id \in ingested : Places(id) = 1

\* C2: in every reachable state no identity is at once in the pool and in a
\* queue, and no identity is in two queues.
C2_NoDoubleMembership ==
  \A id \in PresentIds :
    /\ ~(InPool(id) /\ \E m \in StackerIds : InQueue(m, id))
    /\ Cardinality({m \in StackerIds : InQueue(m, id)}) <= 1

\* C3: the first state observable after an Assign, Unassign or ClearQueue call
\* already has every moved identity out of its source and in its destination:
\* no state shows the queue update without the pool update.
C3_AtomicMove ==
  [][ /\ Committing("drop") =>
           \A id \in IdsOf(last.items) : ~InPool(id)' /\ InQueue(last.m, id)'
      /\ Committing("remove") => InPool(last.id)' /\ ~InQueue(last.m, last.id)'
      /\ Committing("clear") =>
           /\ planningState'[last.m] = <<>>
           /\ \A id \in IdsOf(last.items) : InPool(id)' ]_vars

C3_Witness ==
  /\ last.op = "drop" /\ last.ok /\ updates = <<>>
  /\ \A id \in IdsOf(last.items) : ~InPool(id) /\ InQueue(last.m, id)

\* C4: Assign of items that are all in the pool appends them, in the order
\* given, to the queue of the active stacker (at index 0 when it was empty) and
\* leaves the pool as it was, in the same order, without the assigned
\* identities.
C4_AssignAppends ==
  [][ (Committing("drop") /\ last.ok) =>
        /\ planningState'[last.m] = planningState[last.m] \o last.items
        /\ planningState[last.m] = <<>> => planningState'[last.m][1] = last.items[1]
        /\ stockData' = Without(stockData, IdsOf(last.items)) ]_vars

C4_Witness ==
  /\ last.op = "drop" /\ last.ok /\ updates = <<>>
  /\ Len(planningState[last.m]) > Len(last.items)
  /\ stockData # <<>>

\* C5: Assign with an item whose identity is not in the pool leaves the pool
\* and all queues unchanged.
C5_AssignAbsentIsNoOp ==
  [][ (Committing("drop") /\ ~last.ok) =>
        stockData' = stockData /\ planningState' = planningState ]_vars

\* C6: Unassign of an item that is in the queue removes that identity from the
\* queue, keeps the order of the remaining items and leaves the identity in
\* the pool exactly once.
C6_UnassignReturnsOnce ==
  [][ Committing("remove") =>
        /\ ~InQueue(last.m, last.id)'
        /\ planningState'[last.m] = Without(planningState[last.m], {last.id})
        /\ PoolCount(last.id)' = 1 ]_vars

\* C7: Unassign of an identity that is not in the active queue changes
\* neither the pool nor any queue, at the call or at the render after it.
C7_UnassignAbsentIsNoOp ==
  [][ (last'.op = "remove" /\ ~last'.ok) =>
        stockData' = stockData /\ planningState' = planningState ]_vars

C7_Witness ==
  /\ last.op = "remove" /\ ~last.ok /\ updates = <<>>
  /\ InPool(last.id) \/ \E m \in StackerIds \ {last.m} : InQueue(m, last.id)

\* C8: ClearQueue empties the queue of the active stacker; every identity that
\* was in it is in the pool afterwards and so is every identity that already
\* was in the pool.
C8_ClearReturnsAll ==
  [][ Committing("clear") =>
        /\ planningState'[last.m] = <<>>
        /\ \A id \in IdsOf(planningState[last.m]) \cup IdsOf(stockData) : InPool(id)' ]_vars

C8_Witness ==
  /\ last.op = "clear" /\ updates = <<>> /\ Len(last.items) >= 2
  /\ planningState[last.m] = <<>>
  /\ \A id \in IdsOf(last.items) : InPool(id)

\* C9: after one ingestion the identities found in the pool or a queue are
\* exactly the ingested ones, and no Assign, Unassign or ClearQueue removes an
\* identity from them or adds one that was never ingested.
C9_RelocatedNeverLost ==
  /\ [](uploads = 1 => PresentIds = ingested)
  /\ [][ (updates # <<>> /\ last.op \in PlanningOps) =>
           PresentIds \subseteq PresentIds' /\ PresentIds' \subseteq ingested ]_vars

C9_Witness ==
  /\ uploads = 1 /\ last.op = "remove" /\ last.ok /\ updates = <<>>
  /\ planningState[last.m] # <<>>
  /\ PresentIds = ingested

\* The time of day d minutes after start
EtaAt(start, d) == toLocaleTimeString(60 * startHours(start) + startMinutes(start) + d)

\* C10 as claimed: the ETA is start plus index * 60 / rate minutes rounded to
\* the nearest whole minute.
C10_NearestMinute ==
  (etaOut # <<>> /\ ValidStart(activeConfig.start)) =>
    \E d \in 0..(60 * etaIndex + 1) :
      /\ 2 * (d * mph - 60 * etaIndex) <= mph
      /\ 2 * (60 * etaIndex - d * mph) <= mph
      /\ etaOut = EtaAt(activeConfig.start, d)

\* C10 amended: the ETA is start plus d minutes, d being index * (60 / rate)
\* cut down to a whole minute: d <= index * 60 / rate <= d + 1, exactly
\* index * 60 / rate when the rate divides 60; index 0 gives the start time
\* and start 08:00 with rate 15 gives 08:04 at index 1.
C10_TruncatedMinute ==
  (etaOut # <<>> /\ ValidStart(activeConfig.start)) =>
    /\ \E d \in 0..(60 * etaIndex) :
         /\ d * mph <= 60 * etaIndex
         /\ 60 * etaIndex <= (d + 1) * mph
         /\ 60 % mph = 0 => d * mph = 60 * etaIndex
         /\ etaOut = EtaAt(activeConfig.start, d)
    /\ etaIndex = 0 => etaOut = activeConfig.start
    /\ (activeConfig.start = <<"0", "8", ":", "0", "0">> /\ mph = 15 /\ etaIndex = 1) =>
         etaOut = <<"0", "8", ":", "0", "4">>

C10_Witness ==
  /\ activeConfig.start = <<"0", "8", ":", "0", "0">>
  /\ mph = 7
  /\ etaIndex = 1
  /\ etaOut = <<"0", "8", ":", "0", "8">>

\* Minutes after midnight of a displayed time of day HH:MM
MinutesOfDay(t) == 60 * startHours(t) + startMinutes(t)

\* getEstimatedTime is evaluated at the index following the one evaluated last
EtaStep ==
  /\ etaOut # <<>>
  /\ ValidStart(activeConfig.start)
  /\ etaIndex' = etaIndex + 1

\* Minutes from the ETA evaluated last to the one of this step, the displayed
\* time of day starting again at 00:00 after 23:59
EtaGap == (MinutesOfDay(etaOut') - MinutesOfDay(etaOut)) % 1440

\* C11 as claimed: the ETA of index i + 1 is later than the ETA of index i
\* (a time of day after midnight counting as later than one before it) and
\* the gap between them is 60 / rate minutes.
C11_StrictGap ==
  [][ EtaStep => EtaGap >= 1 /\ EtaGap * mph = 60 ]_vars

\* C11 amended: counted in minutes elapsed, the ETA of index i + 1 is never
\* before the ETA of index i; the gap is a whole number of minutes, 60 / rate
\* rounded down or up (exactly 60 / rate when the rate divides 60), so the
\* ETAs are strictly increasing for rates up to 60 and may repeat above 60.
C11_WholeMinuteGap ==
  [][ EtaStep =>
        /\ EtaGap * mph > 60 - mph
        /\ EtaGap * mph < 60 + mph
        /\ mph <= 60 => EtaGap >= 1
        /\ mph > 60 => EtaGap \in {0, 1} ]_vars

\* Two consecutive indexes share one ETA
C11_Witness ==
  /\ activeConfig.start = <<"0", "8", ":", "0", "0">>
  /\ mph = 61
  /\ etaIndex = 1
  /\ etaOut = <<"0", "8", ":", "0", "0">>

(***************************************************************************)
(* PlanningTab: rate input, search and productivity summary                 *)
(***************************************************************************)
\* The length of the run of decimal digits s starts with
DigitsPrefix(s) == Cardinality({k \in 1..Len(s) : \A j \in 1..k : IsDigit(s[j])})

RECURSIVE DecimalValue(_)
DecimalValue(ds) ==
  IF ds = <<>> THEN 0
  ELSE 10 * DecimalValue(SubSeq(ds, 1, Len(ds) - 1)) + DigitVal(ds[Len(ds)])

\* parseInt(s) in radix 10: leading white space and one sign are skipped and
\* the digits up to the first other character are read; <<>> stands for NaN,
\* <<n>> for the number n
parseInt(s) ==
  LET t == TrimLeft(s)
      signed == t # <<>> /\ Head(t) \in {"+", "-"}
      u == IF signed THEN Tail(t) ELSE t
      n == DigitsPrefix(u)
  IN  IF n = 0 THEN <<>>
      ELSE <<(IF signed /\ Head(t) = "-" THEN -1 ELSE 1) * DecimalValue(SubSeq(u, 1, n))>>

\* The MPH input's onChange: mph: parseInt(e.target.value) || 1; the render
\* that follows evaluates the ETAs and the views anew
SetRate(text) ==
  /\ Idle
  /\ config' = [config EXCEPT ![activeStacker].mph =
                  IF parseInt(text) = <<>> \/ parseInt(text)[1] = 0 THEN 1
                  ELSE parseInt(text)[1]]
  /\ etaIndex' = 0
  /\ etaOut' = <<>>
  /\ viewIn' = NoView
  /\ viewOut' = <<>>
  /\ UNCHANGED appVars

currentPlan == planningState[activeStacker]

\* searchResultIndex comparing the text as typed
searchResultIndex_CaseSensitive(searchTerm) ==
  LET hits == {k \in 1..Len(currentPlan) : includes(currentPlan[k].cntr, searchTerm)}
  IN  IF searchTerm = <<>> THEN -1
      ELSE IF hits = {} THEN -1
      ELSE (CHOOSE k \in hits : \A j \in hits : k <= j) - 1

\* searchResultIndex for the text searchTerm of the search box
searchResultIndex(searchTerm) ==
  LET hits == {k \in 1..Len(currentPlan) :
                 includes(currentPlan[k].cntr, toUpperCase(searchTerm))}
  IN  IF searchTerm = <<>> THEN -1
      ELSE IF hits = {} THEN -1
      ELSE (CHOOSE k \in hits : \A j \in hits : k <= j) - 1

Search(searchTerm) ==
  /\ Idle
  /\ viewIn' = [fn |-> "searchResultIndex", searchTerm |-> searchTerm]
  /\ viewOut' = searchResultIndex(searchTerm)
  /\ UNCHANGED <<appVars, config, etaIndex, etaOut>>

\* The reduce of baySummary: the bay codes in the order they were first met,
\* each with its count
RECURSIVE baySummaryFrom(_, _)
baySummaryFrom(plan, acc) ==
  IF plan = <<>> THEN acc
  ELSE LET b == Head(plan).bay
           hit == {k \in 1..Len(acc) : acc[k].bay = b}
       IN  baySummaryFrom(Tail(plan),
             IF hit = {} THEN Append(acc, [bay |-> b, count |-> 1])
             ELSE [k \in 1..Len(acc) |->
                     IF k \in hit THEN [acc[k] EXCEPT !.count = @ + 1] ELSE acc[k]])

baySummary == baySummaryFrom(currentPlan, <<>>)

Abs(n) == IF n < 0 THEN -n ELSE n

\* The digits of the non-negative double x after the binary point
Fraction(x) ==
  IF x.bits = <<>> \/ x.exp >= 0 THEN <<>>
  ELSE IF Len(x.bits) >= -x.exp
    THEN SubSeq(x.bits, Len(x.bits) + x.exp + 1, Len(x.bits))
    ELSE Zeros(-x.exp - Len(x.bits)) \o x.bits

\* Math.round of the double of magnitude x: to the nearest integer, a half
\* going towards plus infinity
MathRound(x, negative) ==
  LET fr == Fraction(x)
      half == fr # <<>> /\ fr[1] = 1
      above == half /\ \E k \in 2..Len(fr) : fr[k] = 1
  IN  IF negative THEN -(TruncDouble(x) + (IF above THEN 1 ELSE 0))
      ELSE TruncDouble(x) + (IF half THEN 1 ELSE 0)

\* The minutes shown for a bay as count * (60 / mph) cut down to a whole minute
summaryMinutes_Truncated(count) ==
  (IF mph < 0 THEN -1 ELSE 1) * TruncDouble(MulDouble(count, DivDouble(60, Abs(mph))))

\* Math.round((Number(count) / mph) * 60)
summaryMinutes(count) ==
  MathRound(MulDouble(60, DivDouble(count, Abs(mph))), mph < 0)

\* The cards of the productivity summary: Object.entries(baySummary).map(...)
BaySummaryCards ==
  [k \in 1..Len(baySummary) |->
     [bay |-> baySummary[k].bay, count |-> baySummary[k].count,
      minutes |-> summaryMinutes(baySummary[k].count)]]

RenderBaySummary ==
  /\ Idle
  /\ viewIn' = [fn |-> "baySummary"]
  /\ viewOut' = BaySummaryCards
  /\ UNCHANGED <<appVars, config, etaIndex, etaOut>>

(***************************************************************************)
(* Specification of the rate input and the views of a planning queue       *)
(***************************************************************************)
\* Longest queue explored
MaxQueueLen == 3

\* Units a queue is made of: two of bay A101, and the unit AB1 as a second
\* ingestion placed it in bay A102
PlanUnits == processStockFile(StockFileA, <<>>) \o processStockFile(StockFileB, <<>>)

PlanQueues ==
  UNION {[1..n -> Range(PlanUnits)] : n \in 0..MaxQueueLen}

\* Texts typed into the MPH input
RateTexts ==
  {<<"0">>, <<"-", "5">>, <<>>, <<"a", "b", "c">>, <<"7">>, <<"2", "4">>,
   <<"6", "1">>, <<"2", ".", "5">>, <<" ", "8">>}

\* Texts typed into the queue search box
SearchTerms ==
  {<<>>, <<"b", "1">>, <<"D">>, <<"1">>, <<"Z", "Z">>, <<" ", "c", "d">>}

\* StockFileA then StockFileB were ingested; the queue of stacker 1 was filled
\* from the stock tree and the quadra grid, and the pool holds what the last
\* ingestion brought and was not dragged
InitPlan ==
  /\ scheduleData = <<>>
  /\ completedItems = {}
  /\ scheduleRead = <<>>
  /\ \E q \in PlanQueues :
       /\ planningState = [m \in StackerIds |-> IF m = "1" THEN q ELSE <<>>]
       /\ stockData = LET Left(x) == x \notin Range(q)
                      IN  SelectSeq(processStockFile(StockFileB, <<>>), Left)
  /\ ingested = IdsOf(PlanUnits)
  /\ activeStacker = "1"
  /\ viewQuadra = <<>>
  /\ dragData = <<>>
  /\ inflight = <<>>
  /\ updates = <<>>
  /\ last = NoOp
  /\ uploads = Len(<<StockFileA, StockFileB>>)
  /\ config = DefaultConfig
  /\ etaIndex = 0
  /\ etaOut = <<>>
  /\ viewIn = NoView
  /\ viewOut = <<>>

NextPlan ==
  \/ \E text \in RateTexts : SetRate(text)
  \/ \E searchTerm \in SearchTerms : Search(searchTerm)
  \/ RenderBaySummary

SpecPlan == InitPlan /\ [][NextPlan]_vars

\* C12: the rate used by the ETAs, the total duration and the productivity
\* summary is an integer of at least 1 whatever was typed into the MPH input.
C12_RateAtLeastOne == mph \in Nat /\ mph >= 1

\* Number of items of the active queue in bay b
BayCount(b) == Cardinality({k \in 1..Len(currentPlan) : currentPlan[k].bay = b})

RECURSIVE SumCounts(_)
SumCounts(cards) == IF cards = <<>> THEN 0 ELSE Head(cards).count + SumCounts(Tail(cards))

\* The summary has one entry per bay code of the active queue, each with the
\* number of queue items of that bay, and the counts add up to the queue
SummaryCounts ==
  /\ {viewOut[k].bay : k \in 1..Len(viewOut)} = {currentPlan[k].bay : k \in 1..Len(currentPlan)}
  /\ \A j, k \in 1..Len(viewOut) : viewOut[j].bay = viewOut[k].bay => j = k
  /\ \A k \in 1..Len(viewOut) : viewOut[k].count = BayCount(viewOut[k].bay)
  /\ SumCounts(viewOut) = Len(currentPlan)

\* C13 as claimed: one entry per bay code of the queue with its count, the
\* counts adding up to the length of the queue, and minutes = count * 60 / rate.
C13_ExactMinutes ==
  viewIn.fn = "baySummary" =>
    /\ SummaryCounts
    /\ \A k \in 1..Len(viewOut) : viewOut[k].minutes * mph = 60 * viewOut[k].count

\* C13 amended: one entry per bay code of the queue with its count, the counts
\* adding up to the length of the queue, and minutes = count * 60 / rate
\* rounded to the nearest whole minute.
C13_RoundedMinutes ==
  viewIn.fn = "baySummary" =>
    /\ SummaryCounts
    /\ \A k \in 1..Len(viewOut) :
         2 * Abs(viewOut[k].minutes * mph - 60 * viewOut[k].count) <= Abs(mph)

C13_Witness ==
  /\ viewIn.fn = "baySummary"
  /\ mph = 7
  /\ Len(currentPlan) = 3
  /\ Len(viewOut) = 2
  /\ \E k \in 1..2 : viewOut[k].count = 2 /\ viewOut[k].minutes = 17
  /\ \E k \in 1..2 : viewOut[k].count = 1 /\ viewOut[k].minutes = 9

\* Indexes of the active queue whose container code contains the uppercased
\* text
SearchHits(text) ==
  {i \in 0..(Len(currentPlan) - 1) : includes(currentPlan[i + 1].cntr, toUpperCase(text))}

\* C14 as claimed: for any text the search returns the smallest index whose
\* container code contains the uppercased text, and -1 exactly when no item of
\* the queue contains it.
C14_FirstMatchAnyText ==
  viewIn.fn = "searchResultIndex" =>
    /\ viewOut = -1 <=> SearchHits(viewIn.searchTerm) = {}
    /\ viewOut # -1 =>
         /\ viewOut \in SearchHits(viewIn.searchTerm)
         /\ \A i \in SearchHits(viewIn.searchTerm) : viewOut <= i

\* C14 amended: for any text that is not empty the search returns the smallest
\* index whose container code contains the uppercased text, and -1 exactly
\* when no item of the queue contains it; for the empty text it returns -1.
C14_FirstMatchNonEmptyText ==
  viewIn.fn = "searchResultIndex" =>
    /\ viewIn.searchTerm = <<>> => viewOut = -1
    /\ viewIn.searchTerm # <<>> =>
         /\ viewOut = -1 <=> SearchHits(viewIn.searchTerm) = {}
         /\ viewOut # -1 =>
              /\ viewOut \in SearchHits(viewIn.searchTerm)
              /\ \A i \in SearchHits(viewIn.searchTerm) : viewOut <= i

C14_Witness ==
  /\ viewIn.fn = "searchResultIndex"
  /\ viewIn.searchTerm = <<"b", "1">>
  /\ Len(currentPlan) = 3
  /\ SearchHits(viewIn.searchTerm) = {1, 2}
  /\ viewOut = 1

(***************************************************************************)
(* PlanningTab: parsePosition                                               *)
(***************************************************************************)
\* Characters that are neither letters nor digits, with their UTF-16 codes
OtherChars == <<" ", "-", "@", "[">>

OtherCodes == <<32, 45, 64, 91>>

\* String.prototype.charCodeAt(0) of a one-character string
charCodeAt0(c) ==
  IF IsUpper(c) THEN 64 + IndexOf(c, UpperChars)
  ELSE IF IsLower(c) THEN 96 + IndexOf(c, LowerChars)
  ELSE IF IsDigit(c) THEN 48 + DigitVal(c)
  ELSE OtherCodes[IndexOf(c, OtherChars)]

Min(a, b) == IF a < b THEN a ELSE b

Max(a, b) == IF a < b THEN b ELSE a

\* let tier = parseInt(tierChar); if (isNaN(tier)) tier = 1
tier(local) ==
  LET t == parseInt(sliceLast(local, 1))
  IN  IF t = <<>> THEN 1 ELSE t[1]

\* The row taking A as row 1
row_FromOne(local) ==
  LET rowChar == toUpperCase(<<local[Len(local) - 1]>>)
      code == charCodeAt0(rowChar[1])
      num == parseInt(rowChar)
  IN  IF code >= 65 /\ code <= 90 THEN code - 64
      ELSE IF num # <<>> /\ num[1] > 0 THEN num[1] - 1
      ELSE 0

\* The row of the second-to-last character before it is capped
row(local) ==
  LET rowChar == toUpperCase(<<local[Len(local) - 1]>>)
      code == charCodeAt0(rowChar[1])
      num == parseInt(rowChar)
  IN  IF code >= 65 /\ code <= 90 THEN code - 65
      ELSE IF num # <<>> /\ num[1] > 0 THEN num[1] - 1
      ELSE 0

\* parsePosition returning the row and the tier as parsed
parsePosition_NoCap(local) ==
  IF Len(local) < 2 THEN [row |-> 0, tier |-> 1]
  ELSE [row |-> row(local), tier |-> tier(local)]

parsePosition(local) ==
  IF Len(local) < 2 THEN [row |-> 0, tier |-> 1]
  ELSE [row |-> Max(0, Min(5, row(local))), tier |-> Max(1, Min(6, tier(local)))]

\* One evaluation of parsePosition(local)
ParsePosition(local) ==
  /\ viewIn' = [fn |-> "parsePosition", local |-> local]
  /\ viewOut' = parsePosition(local)
  /\ UNCHANGED <<appVars, config, etaIndex, etaOut>>

(***************************************************************************)
(* Specification of parsePosition over location strings                     *)
(***************************************************************************)
\* Length up to which every location string is explored
MaxLocalLen == 2

\* Characters location strings are made of
PosChars ==
  {"A", "B", "F", "G", "Z", "a", "f", "g", "z", "0", "1", "5", "6", "7", "9"}
    \cup Range(OtherChars)

Locations ==
  UNION {[1..n -> PosChars] : n \in 0..MaxLocalLen}
    \cup {<<"A", "4", "B", "5">>, <<"A", "1", "0", "1", "G", "7">>, <<"1", "2">>, <<"X">>}

InitPosition == Init

NextPosition == \E local \in Locations : ParsePosition(local)

SpecPosition == InitPosition /\ [][NextPosition]_vars

\* C15: for every location string of at least two characters parsePosition
\* returns a tier in 1..6 and a row in 0..5.
C15_PositionInRange ==
  (viewIn.fn = "parsePosition" /\ Len(viewIn.local) >= 2) =>
    viewOut.tier \in 1..6 /\ viewOut.row \in 0..5

C15_Witness ==
  /\ viewIn.fn = "parsePosition"
  /\ viewIn.local = <<"Z", "9">>
  /\ viewOut = [row |-> 5, tier |-> 6]

\* n brought into lo..hi
Clamp(n, lo, hi) == IF n < lo THEN lo ELSE IF n > hi THEN hi ELSE n

\* The tier the decoding rules give for the last character c
TierRule(c) == IF IsDigit(c) THEN Clamp(DigitVal(c), 1, 6) ELSE 1

\* The row the decoding rules give for the second-to-last character c
RowRule(c) ==
  IF IsUpper(c) THEN Clamp(IndexOf(c, UpperChars) - 1, 0, 5)
  ELSE IF IsLower(c) THEN Clamp(IndexOf(c, LowerChars) - 1, 0, 5)
  ELSE IF IsDigit(c) /\ DigitVal(c) > 0 THEN Clamp(DigitVal(c) - 1, 0, 5)
  ELSE 0

\* C16: parsePosition follows the decoding rules: the tier is the last
\* character read as an integer (1 when it is none) brought into 1..6; the row
\* is the offset from A of the uppercased second-to-last character when it is
\* a letter, N - 1 when it is a positive integer N, 0 otherwise, brought into
\* 0..5; a string of fewer than two characters gives row 0, tier 1; A4B5 gives
\* row 1, tier 5; 12 gives row 0, tier 2; X gives row 0, tier 1.
C16_DecodingRules ==
  viewIn.fn = "parsePosition" =>
    LET local == viewIn.local
        n == Len(local)
    IN  /\ n < 2 => viewOut = [row |-> 0, tier |-> 1]
        /\ n >= 2 => viewOut = [row |-> RowRule(local[n - 1]), tier |-> TierRule(local[n])]
        /\ local = <<"A", "4", "B", "5">> => viewOut = [row |-> 1, tier |-> 5]
        /\ local = <<"1", "2">> => viewOut = [row |-> 0, tier |-> 2]
        /\ local = <<"X">> => viewOut = [row |-> 0, tier |-> 1]

C16_Witness ==
  /\ viewIn.fn = "parsePosition"
  /\ viewIn.local = <<"A", "4", "B", "5">>
  /\ viewOut = [row |-> 1, tier |-> 5]

(***************************************************************************)
(* LayoutTab: getRowIndex, yardStructure, sortedBays                        *)
(***************************************************************************)
getRowIndex(local) ==
  IF Len(local) < 2 THEN 0
  ELSE LET rowChar == toUpperCase(<<local[Len(local) - 1]>>)
           code == charCodeAt0(rowChar[1])
           num == parseInt(rowChar)
       IN  IF code >= 65 /\ code <= 90 THEN code - 65
           ELSE IF num # <<>> /\ num[1] > 0 THEN num[1] - 1
           ELSE 0

\* The keys quadra, bay, row index under which yardStructure holds a list
YardKeys(items) ==
  {<<items[k].quadra, items[k].bay, getRowIndex(items[k].local)>> :
     k \in {j \in 1..Len(items) : items[j].quadra # <<>> /\ items[j].bay # <<>>}}

\* yardStructure[q][b][rIdx] as a function of <<q, b, rIdx>>
yardStructure(items) ==
  [key \in YardKeys(items) |->
     LET Under(i) == <<i.quadra, i.bay, getRowIndex(i.local)>> = key
     IN  SelectSeq(items, Under)]

BuildYardStructure ==
  /\ viewIn' = [fn |-> "yardStructure"]
  /\ viewOut' = yardStructure(stockData)
  /\ UNCHANGED <<appVars, config, etaIndex, etaOut>>

\* The bay codes of items in the order in which they are first met
BayKeysFrom(items) ==
  LET firsts == {k \in 1..Len(items) : \A j \in 1..(k - 1) : items[j].bay # items[k].bay}
  IN  [i \in 1..Cardinality(firsts) |->
         items[CHOOSE k \in firsts : Cardinality({j \in firsts : j < k}) = i - 1].bay]

\* a.replace(/\D/g, '')
digitsOf(a) == SelectSeq(a, IsDigit)

\* The comparator of sortedBays
compareBays(a, b) ==
  LET numA == parseInt(digitsOf(a))
      numB == parseInt(digitsOf(b))
  IN  IF numA # <<>> /\ numB # <<>> THEN numA[1] - numB[1] ELSE localeCompare(a, b)

\* Stable insertion of x, which follows every bay of s in the list of keys
RECURSIVE InsertBay(_, _)
InsertBay(x, s) ==
  IF s = <<>> THEN <<x>>
  ELSE IF compareBays(x, Head(s)) < 0 THEN <<x>> \o s
  ELSE <<Head(s)>> \o InsertBay(x, Tail(s))

RECURSIVE SortBaysFrom(_, _)
SortBaysFrom(keys, acc) ==
  IF keys = <<>> THEN acc ELSE SortBaysFrom(Tail(keys), InsertBay(Head(keys), acc))

\* Object.keys(yardStructure[quadraName]).sort(comparator)
sortedBays(quadraName) ==
  LET InQuadra(i) == i.quadra = quadraName /\ i.bay # <<>>
  IN  SortBaysFrom(BayKeysFrom(SelectSeq(stockData, InQuadra)), <<>>)

SortBays(quadraName) ==
  /\ \E k \in 1..Len(stockData) : stockData[k].quadra = quadraName
  /\ viewIn' = [fn |-> "sortedBays", quadraName |-> quadraName]
  /\ viewOut' = sortedBays(quadraName)
  /\ UNCHANGED <<appVars, config, etaIndex, etaOut>>

(***************************************************************************)
(* PlanningTab: quadraViewData                                              *)
(***************************************************************************)
\* Rows and tiers of the grid of a bay
GridSize == 6

\* Strict order of strings by UTF-16 code units, the order of sort()
RECURSIVE CodeUnitLess(_, _)
CodeUnitLess(a, b) ==
  IF b = <<>> THEN FALSE
  ELSE IF a = <<>> THEN TRUE
  ELSE IF charCodeAt0(Head(a)) < charCodeAt0(Head(b)) THEN TRUE
  ELSE IF charCodeAt0(Head(a)) > charCodeAt0(Head(b)) THEN FALSE
  ELSE CodeUnitLess(Tail(a), Tail(b))

\* Object.keys(bays).sort()
SortedKeys(keys) ==
  [k \in 1..Cardinality(keys) |->
     CHOOSE x \in keys : Cardinality({y \in keys : CodeUnitLess(y, x)}) = k - 1]

\* Array(6).fill(null).map(() => Array(6).fill(null)); 0 stands for null and
\* k for a reference to the k-th item of the bay
EmptyGrid == [t \in 0..(GridSize - 1) |-> [r \in 0..(GridSize - 1) |-> 0]]

\* The k-th cell of a scan from grid[0] to grid[5]
ScanCell_TopDown(k) == [t |-> (k - 1) \div GridSize, r |-> (k - 1) % GridSize]

\* The k-th cell visited by the loops for (t = 5; t >= 0; t--) for (r = 0; r < 6; r++)
ScanCell(k) == [t |-> GridSize - 1 - ((k - 1) \div GridSize), r |-> (k - 1) % GridSize]

\* bayItems.forEach callback overwriting the target cell
PlaceItem_Overwrite(grid, bayItems, k) ==
  LET p == parsePosition(bayItems[k].local)
      visualRow == p.row
      visualTier == 6 - p.tier
  IN  [grid EXCEPT ![visualTier][visualRow] = k]

\* bayItems.forEach callback for the k-th item of the bay
PlaceItem(grid, bayItems, k) ==
  LET p == parsePosition(bayItems[k].local)
      visualRow == p.row
      visualTier == 6 - p.tier
      free == {j \in 1..(GridSize * GridSize) : grid[ScanCell(j).t][ScanCell(j).r] = 0}
      first == ScanCell(CHOOSE j \in free : \A i \in free : j <= i)
  IN  IF visualTier >= 0 /\ visualTier < 6 /\ visualRow >= 0 /\ visualRow < 6
        THEN IF grid[visualTier][visualRow] = 0
               THEN [grid EXCEPT ![visualTier][visualRow] = k]
             ELSE IF free = {} THEN grid
             ELSE [grid EXCEPT ![first.t][first.r] = k]
        ELSE grid

\* bayItems.forEach(callback): run[<<k, grid>>] is the grid left by the calls
\* for the items k, k + 1, ... of the bay, made in turn from grid
GridFrom(bayItems) ==
  LET Grids == [0..(GridSize - 1) -> [0..(GridSize - 1) -> 0..Len(bayItems)]]
      run[call \in (1..(Len(bayItems) + 1)) \X Grids] ==
        IF call[1] > Len(bayItems) THEN call[2]
        ELSE run[<<call[1] + 1, PlaceItem(call[2], bayItems, call[1])>>]
  IN  run[<<1, EmptyGrid>>]

\* quadraViewData; items is the list the grid's references point into
quadraViewData ==
  IF viewQuadra = <<>> THEN <<>>
  ELSE LET keys == SortedKeys({allItems[k].bay : k \in 1..Len(allItems)})
       IN  [b \in 1..Len(keys) |->
              LET InBay(i) == i.bay = keys[b]
                  bayItems == SelectSeq(allItems, InBay)
              IN  [bayName |-> keys[b],
                   grid |-> GridFrom(bayItems),
                   total |-> Len(bayItems),
                   items |-> bayItems]]

BuildQuadraView ==
  /\ viewQuadra # <<>>
  /\ viewIn' = [fn |-> "quadraViewData", viewQuadra |-> viewQuadra]
  /\ viewOut' = quadraViewData
  /\ UNCHANGED <<appVars, config, etaIndex, etaOut>>

(***************************************************************************)
(* Specification of the yard views over ingested stock                      *)
(***************************************************************************)
\* Number of units of the fullest bay explored
MaxBayUnits == 37

StockRow(local, cntr) == [terminal |-> CLIA, local |-> local, cntr |-> cntr]

\* Two units at the same row and tier of bay A101, a third one in that bay and
\* one in bay A102
CollisionFile ==
  << StockRow(<<"A", "1", "0", "1", "A", "1">>, <<"A", "B", "1">>),
     StockRow(<<"A", "1", "0", "1", "A", "1">>, <<"C", "D", "2">>),
     StockRow(<<"A", "1", "0", "1", "B", "6">>, <<"E", "F", "3">>),
     StockRow(<<"A", "1", "0", "2", "A", "1">>, <<"G", "H", "4">>) >>

\* Two units at row A, tier 1 of bay A101 and then one at row B, tier 1
DisplacedFile ==
  << StockRow(<<"A", "1", "0", "1", "A", "1">>, <<"A", "B", "1">>),
     StockRow(<<"A", "1", "0", "1", "A", "1">>, <<"C", "D", "2">>),
     StockRow(<<"A", "1", "0", "1", "B", "1">>, <<"E", "F", "3">>) >>

\* Bays B-10 and B-2A of quadra B-, labelled with the numbers 10 and 2
BayOrderFile ==
  << StockRow(<<"B", "-", "1", "0", "A", "1">>, <<"A", "B", "1">>),
     StockRow(<<"B", "-", "2", "A", "1">>, <<"C", "D", "2">>) >>

\* Bays BXAB and BXAA of quadra BX, labelled without a number
LetterBaysFile ==
  << StockRow(<<"B", "X", "A", "B", "A", "1">>, <<"A", "B", "1">>),
     StockRow(<<"B", "X", "A", "A", "A", "1">>, <<"C", "D", "2">>) >>

\* MaxBayUnits units of bay A101 on rows A..F and tiers 1..3
FullBayFile ==
  [k \in 1..MaxBayUnits |->
     StockRow(<<"A", "1", "0", "1", UpperChars[((k - 1) % 6) + 1],
                Digits[(((k - 1) \div 6) % 3) + 2]>>,
              <<"A", "B", "1">>)]

\* Pools after one ingestion, and the pool and queue after CollisionFile was
\* ingested, its first unit queued and the file ingested again
YardInputs ==
  {[pool |-> processStockFile(<<StockRow(local, <<"A", "B", "1">>)>>, <<>>), queue |-> <<>>] :
     local \in Locations}
    \cup {[pool |-> processStockFile(f, <<>>), queue |-> <<>>] :
            f \in {CollisionFile, DisplacedFile, BayOrderFile, LetterBaysFile,
                   FullBayFile}}
    \cup {[pool |-> processStockFile(CollisionFile, <<>>),
           queue |-> <<processStockFile(CollisionFile, <<>>)[1]>>]}

InitYard ==
  /\ scheduleData = <<>>
  /\ completedItems = {}
  /\ scheduleRead = <<>>
  /\ \E in \in YardInputs :
       /\ stockData = in.pool
       /\ planningState = [m \in StackerIds |-> IF m = "1" THEN in.queue ELSE <<>>]
       /\ uploads = 1 + Len(in.queue)
       /\ ingested = IdsOf(in.pool)
  /\ activeStacker = "1"
  /\ viewQuadra = <<>>
  /\ dragData = <<>>
  /\ inflight = <<>>
  /\ updates = <<>>
  /\ last = NoOp
  /\ config = DefaultConfig
  /\ etaIndex = 0
  /\ etaOut = <<>>
  /\ viewIn = NoView
  /\ viewOut = <<>>

PoolQuadras == {stockData[k].quadra : k \in 1..Len(stockData)}

NextYard ==
  \/ \E q \in PoolQuadras : OpenQuadraView(q)
  \/ BuildYardStructure
  \/ \E q \in PoolQuadras : SortBays(q)
  \/ BuildQuadraView

SpecYard == InitYard /\ [][NextYard]_vars

(***************************************************************************)
(* Properties of the yard views                                             *)
(***************************************************************************)
\* C17: every row-index key of the nested grouping quadra -> bay -> row index
\* lies in 0..5 and equals the row parsePosition returns for the location of
\* every item grouped under it
C17_RowKeysDisplayed ==
  viewIn.fn = "yardStructure" =>
    \A key \in DOMAIN viewOut :
      /\ key[3] \in 0..5
      /\ \A k \in 1..Len(viewOut[key]) : parsePosition(viewOut[key][k].local).row = key[3]

Cells == (0..(GridSize - 1)) \X (0..(GridSize - 1))

\* The cells of a grid that hold an item
Occupied(grid) == {c \in Cells : grid[c[1]][c[2]] # 0}

\* The items of the bay that some cell of the grid refers to
Placed(grid) == {grid[c[1]][c[2]] : c \in Occupied(grid)}

\* C18: in the fine grid of a bay with n items exactly min(n, 36) cells are
\* occupied, no two of them by the same item of the bay; two items decoding to
\* the same row and tier are both placed, and an item of the bay is left out
\* only when all 36 cells are occupied
C18_NoOverwrite ==
  viewIn.fn = "quadraViewData" =>
    \A b \in 1..Len(viewOut) :
      LET grid == viewOut[b].grid
          items == viewOut[b].items
          n == Len(items)
      IN  /\ viewOut[b].total = n
          /\ Cardinality(Occupied(grid)) = Min(n, GridSize * GridSize)
          /\ Placed(grid) \subseteq 1..n
          /\ Cardinality(Placed(grid)) = Cardinality(Occupied(grid))
          /\ \A i, j \in 1..n :
               i # j /\ parsePosition(items[i].local) = parsePosition(items[j].local)
                 => \/ {i, j} \subseteq Placed(grid)
                    \/ Cardinality(Occupied(grid)) = GridSize * GridSize
          /\ Placed(grid) # 1..n => Cardinality(Occupied(grid)) = GridSize * GridSize

\* A bay of MaxBayUnits items, several of them at the same row and tier, fills
\* the 36 cells and leaves the last item out
C18_Witness ==
  /\ viewIn.fn = "quadraViewData"
  /\ \E b \in 1..Len(viewOut) :
       /\ Len(viewOut[b].items) = MaxBayUnits
       /\ Occupied(viewOut[b].grid) = Cells
       /\ MaxBayUnits \notin Placed(viewOut[b].grid)
       /\ {1, 19} \subseteq Placed(viewOut[b].grid)
       /\ viewOut[b].items[1].local = viewOut[b].items[19].local

\* The k-th item of the bay found its target cell occupied while a cell was free
Collided(items, k) ==
  LET p == parsePosition(items[k].local)
      before == GridFrom(SubSeq(items, 1, k - 1))
  IN  before[6 - p.tier][p.row] # 0 /\ Occupied(before) # Cells

\* The cell of the grid that holds the k-th item of the bay
CellOf(grid, k) == CHOOSE c \in Cells : grid[c[1]][c[2]] = k

\* C19 as stated: an item whose target cell is occupied goes to the first empty
\* cell met from tier 6 (grid[0]) down to tier 1 (grid[5]), rows 0 to 5 in each
C19_ScanFromTier6 ==
  viewIn.fn = "quadraViewData" =>
    \A b \in 1..Len(viewOut) : \A k \in 1..Len(viewOut[b].items) :
      Collided(viewOut[b].items, k) =>
        LET before == GridFrom(SubSeq(viewOut[b].items, 1, k - 1))
            c == CellOf(viewOut[b].grid, k)
        IN  /\ k \in Placed(viewOut[b].grid)
            /\ before[c[1]][c[2]] = 0
            /\ \A d \in Cells :
                 d[1] < c[1] \/ (d[1] = c[1] /\ d[2] < c[2]) => before[d[1]][d[2]] # 0

\* C19: an item whose target cell is occupied goes to the first empty cell met
\* from tier 1 (grid[5]) up to tier 6 (grid[0]), rows 0 to 5 in each tier
C19_ScanFromTier1 ==
  viewIn.fn = "quadraViewData" =>
    \A b \in 1..Len(viewOut) : \A k \in 1..Len(viewOut[b].items) :
      Collided(viewOut[b].items, k) =>
        LET before == GridFrom(SubSeq(viewOut[b].items, 1, k - 1))
            c == CellOf(viewOut[b].grid, k)
        IN  /\ k \in Placed(viewOut[b].grid)
            /\ before[c[1]][c[2]] = 0
            /\ \A d \in Cells :
                 d[1] > c[1] \/ (d[1] = c[1] /\ d[2] < c[2]) => before[d[1]][d[2]] # 0

\* The second unit at row A, tier 1 of bay A101 is shown at row B, tier 1
C19_Witness ==
  /\ viewIn.fn = "quadraViewData"
  /\ \E b \in 1..Len(viewOut) :
       /\ Len(viewOut[b].items) = 3
       /\ viewOut[b].items[1].local = viewOut[b].items[2].local
       /\ viewOut[b].grid[5][0] = 1
       /\ viewOut[b].grid[5][1] = 2
       /\ viewOut[b].grid[0][1] = 3

\* The number embedded in a bay label, parseInt(a.replace(/\D/g, ''))
BayNumber(a) == parseInt(SelectSeq(a, IsDigit))

\* A list of bay labels is in the order the bays are to be listed in
BayOrder(labels) ==
  \A i \in 1..(Len(labels) - 1) :
    IF \A k \in 1..Len(labels) : BayNumber(labels[k]) # <<>>
      THEN BayNumber(labels[i])[1] <= BayNumber(labels[i + 1])[1]
      ELSE ~CodeUnitLess(labels[i + 1], labels[i])

\* C20: the bays of a quadra are listed by ascending embedded number when
\* every label holds a number and lexicographically otherwise, in the nested
\* grouping view and in the fine grid view
C20_BayOrder ==
  /\ viewIn.fn = "sortedBays" => BayOrder(viewOut)
  /\ viewIn.fn = "quadraViewData" =>
       BayOrder([b \in 1..Len(viewOut) |-> viewOut[b].bayName])

\* C26: an item that finds its target cell occupied finds there an item that
\* decoded to the same row and tier, and an item whose decoded row and tier are
\* shared by no other item of the bay is placed at grid[6 - tier][row]
C26_UniqueAtOwnCell ==
  viewIn.fn = "quadraViewData" =>
    \A b \in 1..Len(viewOut) :
      LET items == viewOut[b].items
          grid == viewOut[b].grid
      IN  \A k \in 1..Len(items) :
            LET p == parsePosition(items[k].local)
                before == GridFrom(SubSeq(items, 1, k - 1))
                occupant == before[6 - p.tier][p.row]
            IN  /\ occupant # 0 => parsePosition(items[occupant].local) = p
                /\ (\A j \in 1..Len(items) :
                      j # k => parsePosition(items[j].local) # p)
                     => grid[6 - p.tier][p.row] = k

(***************************************************************************)
(* dataProcessor.ts: processScheduleFile                                    *)
(* A schedule row holds the cells read by the code: importador (column 0),  *)
(* cntr (3), tipoDoc (7), quadraFull (8), servico (9), remocoes (12) and    *)
(* date (18); <<>> is an empty cell.  A Date is [valid, time], time in      *)
(* minutes since the epoch, and <<>> stands for null.  agendamentoFull, the *)
(* formatted date, is not modelled.                                         *)
(***************************************************************************)
DIVERSOS == <<"D", "I", "V", "E", "R", "S", "O", "S">>

OUTROS == <<"O", "U", "T", "R", "O", "S">>

\* Minutes of a day; a numeric date cell holds the days since 1899-12-30
MinutesPerDay == 1440

\* The serial number of 1970-01-01
EpochSerial == 25569

\* new Date(NaN)
InvalidDateValue == [valid |-> FALSE, time |-> 0]

\* row[18] ? (typeof row[18] === 'number' ? new Date(Math.round((row[18] -
\* 25569) * 86400 * 1000)) : new Date(row[18])) : null; a numeric cell is
\* [minutes |-> n] for the serial number n / 1440 (0 is falsy), a text cell
\* [text |-> s]; the explored texts are no dates
DateOfCell(cell) ==
  IF cell = <<>> THEN <<>>
  ELSE IF "minutes" \in DOMAIN cell
    THEN IF cell.minutes = 0 THEN <<>>
         ELSE <<[valid |-> TRUE, time |-> cell.minutes - EpochSerial * MinutesPerDay]>>
  ELSE <<InvalidDateValue>>

\* x || d for a text cell
OrDefault(x, d) == IF x = <<>> THEN d ELSE x

\* parseInt(row[12]) || 0
RemocoesOfCell(cell) ==
  IF parseInt(cell) = <<>> THEN 0 ELSE parseInt(cell)[1]

\* The ScheduleItem built from row r at index idx of rows.slice(2), or <<>>
\* when the row is discarded; the id rawCntr + "_" + idx is <<rawCntr, idx>>
ScheduleRowItems(r, idx) ==
  IF r.cntr = <<>> THEN <<>>
  ELSE << [id |-> <<r.cntr, idx>>,
           importador |-> OrDefault(r.importador, DIVERSOS),
           cntr |-> normalizeCntr(r.cntr),
           tipoDoc |-> OrDefault(r.tipoDoc, <<"-">>),
           quadraFull |-> OrDefault(r.quadraFull, <<"?">>),
           servico |-> OrDefault(r.servico, OUTROS),
           remocoes |-> RemocoesOfCell(r.remocoes),
           _rawDate |-> DateOfCell(r.date)] >>

\* rows.slice(2).map(...).filter(i => i !== null); rows excludes the two
\* header rows
RECURSIVE ScheduleRowsFrom(_, _)
ScheduleRowsFrom(rows, idx) ==
  IF rows = <<>> THEN <<>>
  ELSE ScheduleRowItems(Head(rows), idx) \o ScheduleRowsFrom(Tail(rows), idx + 1)

processScheduleFile(rows) == ScheduleRowsFrom(rows, 0)

(***************************************************************************)
(* Specification of normalizeCntr and of the reconciliation                 *)
(***************************************************************************)
\* Longest container code text explored
MaxCntrLen == 3

CntrChars == {"a", "A", "b", "1", " ", "-"}

CntrTexts == UNION {[1..n -> CntrChars] : n \in 0..MaxCntrLen}

\* A numeric date cell: minute m of the day d days after 1970-01-01
DateCell(d, m) == [minutes |-> (EpochSerial + d) * MinutesPerDay + m]

\* Two rows of the code AB1, the last one without a date, a row without a
\* code and a row with defaulted cells and a text in the date column
ScheduleFileA ==
  << [importador |-> <<>>, cntr |-> <<"a", "b", " ", "1">>, tipoDoc |-> <<>>,
      quadraFull |-> <<"a", "1", "x">>, servico |-> <<"D", "E", "S">>,
      remocoes |-> <<"2">>, date |-> DateCell(20000, 600)],
     [importador |-> <<"X">>, cntr |-> <<>>, tipoDoc |-> <<"D", "I">>,
      quadraFull |-> <<"B", "2">>, servico |-> <<"D", "E", "S">>,
      remocoes |-> <<"5">>, date |-> DateCell(20000, 600)],
     [importador |-> <<"X">>, cntr |-> <<"A", "B", "-", "1">>, tipoDoc |-> <<"D", "I">>,
      quadraFull |-> <<"B", "2">>, servico |-> <<"V", "I", "S">>,
      remocoes |-> <<"a", "b", "c">>, date |-> <<>>],
     [importador |-> <<"Y">>, cntr |-> <<"C", "D", "2">>, tipoDoc |-> <<>>,
      quadraFull |-> <<>>, servico |-> <<>>,
      remocoes |-> <<"3">>, date |-> [text |-> <<"a", "b", "c">>]] >>

ScheduleFileB ==
  << [importador |-> <<"Y">>, cntr |-> <<"C", "D", "2">>, tipoDoc |-> <<>>,
      quadraFull |-> <<"C">>, servico |-> <<"D", "E", "S">>,
      remocoes |-> <<"4">>, date |-> DateCell(20001, 0)],
     [importador |-> <<"Y">>, cntr |-> <<"E", "F", "3">>, tipoDoc |-> <<>>,
      quadraFull |-> <<"a", "1", "y">>, servico |-> <<"V", "I", "S">>,
      remocoes |-> <<"1">>, date |-> DateCell(20000, 601)] >>

ScheduleFiles == {ScheduleFileA, ScheduleFileB}

\* normalizeCntr(val)
NormalizeCntr(val) ==
  /\ viewIn' = [fn |-> "normalizeCntr", val |-> val]
  /\ viewOut' = normalizeCntr(val)
  /\ UNCHANGED <<appVars, config, etaIndex, etaOut>>

\* processStockFile(file, scheduleData) on the rows of a file
Reconcile(rows, scheduleItems) ==
  /\ viewIn' = [fn |-> "processStockFile", rows |-> rows, scheduleItems |-> scheduleItems]
  /\ viewOut' = processStockFile(rows, scheduleItems)
  /\ UNCHANGED <<appVars, config, etaIndex, etaOut>>

InitProcessor == Init

NextProcessor ==
  \/ \E val \in CntrTexts : NormalizeCntr(val)
  \/ \E rows \in StockFiles, f \in ScheduleFiles \cup {<<>>} :
       Reconcile(rows, processScheduleFile(f))

SpecProcessor == InitProcessor /\ [][NextProcessor]_vars

(***************************************************************************)
(* Properties of normalizeCntr and of the reconciliation                    *)
(***************************************************************************)
LowerChar(c) == IF IsUpper(c) THEN LowerChars[IndexOf(c, UpperChars)] ELSE c

\* The letters and digits of a text, letters in lower case
LettersAndDigits(x) ==
  LET Kept(c) == IsUpper(c) \/ IsLower(c) \/ IsDigit(c)
      kept == SelectSeq(x, Kept)
  IN  [k \in 1..Len(kept) |-> LowerChar(kept[k])]

\* C21: normalizeCntr is idempotent, its result holds only characters of
\* [A-Z0-9], the empty input gives the empty string, and inputs that differ
\* only in letter case, spaces or punctuation give the same result
C21_Normalization ==
  viewIn.fn = "normalizeCntr" =>
    /\ normalizeCntr(viewOut) = viewOut
    /\ \A k \in 1..Len(viewOut) : viewOut[k] \in Range(UpperChars) \cup Range(Digits)
    /\ viewIn.val = <<>> => viewOut = <<>>
    /\ \A y \in CntrTexts :
         LettersAndDigits(y) = LettersAndDigits(viewIn.val) => normalizeCntr(y) = viewOut

C21_Witness ==
  /\ viewIn.fn = "normalizeCntr"
  /\ viewIn.val = <<"a", "-", "1">>
  /\ viewOut = <<"A", "1">>
  /\ normalizeCntr(<<"A", " ", "1">>) = viewOut

\* C22: every stock item carries the normalized code of its row and the
\* service and quadra label of the last schedule item with that code, or the
\* sentinels Sem Agendamento and N/I when no schedule item has the code
C22_LastMatchOrSentinel ==
  viewIn.fn = "processStockFile" =>
    \A k \in 1..Len(viewOut) :
      LET item == viewOut[k]
          sched == viewIn.scheduleItems
          hits == {i \in 1..Len(sched) : sched[i].cntr = item.cntr}
      IN  /\ item.cntr = normalizeCntr(viewIn.rows[item.id[1] + 1].cntr)
          /\ hits = {} => item.servico = SemAgendamento /\ item.quadraBase = NI
          /\ \A i \in hits :
               (\A j \in hits : j <= i) =>
                 item.servico = sched[i].servico /\ item.quadraBase = sched[i].quadraFull

\* StockFileA against ScheduleFileA: AB1 has two schedule rows and gets the
\* service of the last, CD2 gets the defaulted cells of its row
C22_Witness ==
  /\ viewIn.fn = "processStockFile"
  /\ Len(viewIn.scheduleItems) = 3
  /\ Len(viewOut) = 2
  /\ viewOut[1].servico = <<"V", "I", "S">>
  /\ viewOut[1].quadraBase = <<"B", "2">>
  /\ viewOut[2].servico = OUTROS
  /\ viewOut[2].quadraBase = <<"?">>

(***************************************************************************)
(* App: toggleItemCompletion.  DashboardTab: filteredData, serviceStats,    *)
(* quadraStats, executionStats and the totals.  The date labels of the      *)
(* statistics are not modelled.                                             *)
(***************************************************************************)
\* toggleItemCompletion(id), called from the row of a schedule item
toggleItemCompletion(id) ==
  /\ Idle
  /\ \E k \in 1..Len(scheduleData) : scheduleData[k].id = id
  /\ updates' = <<[hook |-> "completedItems", op |-> "toggle", id |-> id]>>
  /\ last' = NoOp
  /\ UNCHANGED <<scheduleVars, stockData, planningState, activeStacker, viewQuadra,
                 dragData, inflight, histVars, etaVars>>

\* The local calendar day, counted from 1970-01-01, of a time value where
\* getTimezoneOffset() is tz
LocalDay(time, tz) == (time - tz) \div MinutesPerDay

\* toISOString() of an invalid Date throws a RangeError
FilterThrows(selectedDate) ==
  /\ selectedDate # <<>>
  /\ \E k \in 1..Len(scheduleData) :
       scheduleData[k]._rawDate # <<>> /\ ~scheduleData[k]._rawDate[1].valid

\* filteredData; selectedDate is <<>> for '' and <<d>> for the day d
filteredData(selectedDate, tz) ==
  LET OnDay(item) ==
        /\ item._rawDate # <<>>
        /\ LocalDay(item._rawDate[1].time, tz) = selectedDate[1]
  IN  IF selectedDate = <<>> THEN scheduleData ELSE SelectSeq(scheduleData, OnDay)

\* curr._rawDate <= now
DateBefore_OrEqual(d, now) == d.valid /\ d.time <= now

\* curr._rawDate < now for a Date curr._rawDate: false for an invalid Date
DateBefore(d, now) == d.valid /\ d.time < now

NewServiceStat == [count |-> 0, remocoes |-> 0, dates |-> <<>>, late |-> 0, onTime |-> 0]

\* The reducer of serviceStats; acc holds the keys in insertion order and the
\* record of each key
ServiceStep(acc, curr, now) ==
  LET svc == OrDefault(curr.servico, OUTROS)
      old == IF svc \in DOMAIN acc.stats THEN acc.stats[svc] ELSE NewServiceStat
      isLate == curr._rawDate # <<>> /\ DateBefore(curr._rawDate[1], now)
      new == [count |-> old.count + 1,
              remocoes |-> old.remocoes + curr.remocoes,
              dates |-> old.dates \o curr._rawDate,
              late |-> old.late + (IF isLate THEN 1 ELSE 0),
              onTime |-> old.onTime + (IF isLate THEN 0 ELSE 1)]
  IN  [keys |-> IF svc \in DOMAIN acc.stats THEN acc.keys ELSE Append(acc.keys, svc),
       stats |-> [k \in DOMAIN acc.stats \cup {svc} |-> IF k = svc THEN new ELSE acc.stats[k]]]

NoStats == [keys |-> <<>>, stats |-> [k \in {} |-> NewServiceStat]]

RECURSIVE ServiceReduce(_, _, _)
ServiceReduce(data, n, now) ==
  IF n = 0 THEN NoStats ELSE ServiceStep(ServiceReduce(data, n - 1, now), data[n], now)

\* sort((a, b) => b.remocoes - a.remocoes), a stable sort
SortByRemocoes(entries) ==
  LET Rank(i) == Cardinality({j \in 1..Len(entries) :
                    \/ entries[j].remocoes > entries[i].remocoes
                    \/ entries[j].remocoes = entries[i].remocoes /\ j < i})
  IN  [p \in 1..Len(entries) |-> entries[CHOOSE i \in 1..Len(entries) : Rank(i) = p - 1]]

\* serviceStats evaluated at the instant now
serviceStats(data, now) ==
  LET acc == ServiceReduce(data, Len(data), now)
  IN  SortByRemocoes([k \in 1..Len(acc.keys) |->
        [service |-> acc.keys[k],
         count |-> acc.stats[acc.keys[k]].count,
         remocoes |-> acc.stats[acc.keys[k]].remocoes,
         dates |-> acc.stats[acc.keys[k]].dates,
         late |-> acc.stats[acc.keys[k]].late,
         onTime |-> acc.stats[acc.keys[k]].onTime]])

\* The key of quadraStats for a schedule item
quadraKey(curr) ==
  IF Len(curr.quadraFull) >= 2 THEN toUpperCase(substring0(curr.quadraFull, 2))
  ELSE OrDefault(curr.quadraFull, <<"?", "?">>)

NewQuadraStat == [count |-> 0, remocoes |-> 0, dates |-> <<>>]

\* The reducer of quadraStats keeping the removals of the last item only
QuadraStep_Overwrite(acc, curr) ==
  LET quadra == quadraKey(curr)
      old == IF quadra \in DOMAIN acc.stats THEN acc.stats[quadra] ELSE NewQuadraStat
      new == [count |-> old.count + 1,
              remocoes |-> curr.remocoes,
              dates |-> old.dates \o curr._rawDate]
  IN  [keys |-> IF quadra \in DOMAIN acc.stats THEN acc.keys ELSE Append(acc.keys, quadra),
       stats |-> [k \in DOMAIN acc.stats \cup {quadra} |->
                    IF k = quadra THEN new ELSE acc.stats[k]]]

\* The reducer of quadraStats
QuadraStep(acc, curr) ==
  LET quadra == quadraKey(curr)
      old == IF quadra \in DOMAIN acc.stats THEN acc.stats[quadra] ELSE NewQuadraStat
      new == [count |-> old.count + 1,
              remocoes |-> old.remocoes + curr.remocoes,
              dates |-> old.dates \o curr._rawDate]
  IN  [keys |-> IF quadra \in DOMAIN acc.stats THEN acc.keys ELSE Append(acc.keys, quadra),
       stats |-> [k \in DOMAIN acc.stats \cup {quadra} |->
                    IF k = quadra THEN new ELSE acc.stats[k]]]

RECURSIVE QuadraReduce(_, _)
QuadraReduce(data, n) ==
  IF n = 0 THEN NoStats ELSE QuadraStep(QuadraReduce(data, n - 1), data[n])

quadraStats(data) ==
  LET acc == QuadraReduce(data, Len(data))
  IN  SortByRemocoes([k \in 1..Len(acc.keys) |->
        [quadra |-> acc.keys[k],
         count |-> acc.stats[acc.keys[k]].count,
         remocoes |-> acc.stats[acc.keys[k]].remocoes,
         dates |-> acc.stats[acc.keys[k]].dates]])

NoExecution ==
  [servicesDone |-> 0, servicesPending |-> 0, removalsDone |-> 0, removalsPending |-> 0]

\* The forEach callback of executionStats counting every item as pending
ExecutionStep_AllPending(acc, item, completed) ==
  [acc EXCEPT !.servicesPending = @ + 1, !.removalsPending = @ + item.remocoes]

\* The forEach callback of executionStats
ExecutionStep(acc, item, completed) ==
  IF item.id \in completed
    THEN [acc EXCEPT !.servicesDone = @ + 1, !.removalsDone = @ + item.remocoes]
    ELSE [acc EXCEPT !.servicesPending = @ + 1, !.removalsPending = @ + item.remocoes]

RECURSIVE executionStatsFrom(_, _, _)
executionStatsFrom(data, n, completed) ==
  IF n = 0 THEN NoExecution
  ELSE ExecutionStep(executionStatsFrom(data, n - 1, completed), data[n], completed)

executionStats(data, completed) == executionStatsFrom(data, Len(data), completed)

\* filteredData.reduce((sum, item) => sum + (item.remocoes || 0), 0)
RECURSIVE totalRemocoesFrom(_, _)
totalRemocoesFrom(data, n) ==
  IF n = 0 THEN 0 ELSE totalRemocoesFrom(data, n - 1) + data[n].remocoes

totalRemocoes(data) == totalRemocoesFrom(data, Len(data))

totalServices(data) == Len(data)

\* One render of DashboardTab with the date filter selectedDate in a browser
\* whose time zone offset is tz, at the instant now
RenderServiceStats(selectedDate, tz, now) ==
  /\ ~FilterThrows(selectedDate)
  /\ viewIn' = [fn |-> "serviceStats", filteredData |-> filteredData(selectedDate, tz),
                now |-> now]
  /\ viewOut' = serviceStats(filteredData(selectedDate, tz), now)
  /\ UNCHANGED <<appVars, config, etaIndex, etaOut>>

RenderQuadraStats(selectedDate, tz) ==
  /\ ~FilterThrows(selectedDate)
  /\ viewIn' = [fn |-> "quadraStats", filteredData |-> filteredData(selectedDate, tz)]
  /\ viewOut' = quadraStats(filteredData(selectedDate, tz))
  /\ UNCHANGED <<appVars, config, etaIndex, etaOut>>

RenderExecutionStats(selectedDate, tz) ==
  /\ ~FilterThrows(selectedDate)
  /\ viewIn' = [fn |-> "executionStats", filteredData |-> filteredData(selectedDate, tz),
                completedItems |-> completedItems]
  /\ viewOut' = executionStats(filteredData(selectedDate, tz), completedItems)
  /\ UNCHANGED <<appVars, config, etaIndex, etaOut>>

(***************************************************************************)
(* Specification of the dashboard over an ingested schedule                 *)
(***************************************************************************)
\* Four rows of the service DES in the quadras A1 and B2, at three
\* consecutive minutes and without a date
ScheduleFileC ==
  << [importador |-> <<"X">>, cntr |-> <<"A", "B", "1">>, tipoDoc |-> <<>>,
      quadraFull |-> <<"a", "1", "x">>, servico |-> <<"D", "E", "S">>,
      remocoes |-> <<"1">>, date |-> DateCell(20000, 599)],
     [importador |-> <<"X">>, cntr |-> <<"C", "D", "2">>, tipoDoc |-> <<>>,
      quadraFull |-> <<"B", "2">>, servico |-> <<"D", "E", "S">>,
      remocoes |-> <<"2">>, date |-> DateCell(20000, 600)],
     [importador |-> <<"X">>, cntr |-> <<"E", "F", "3">>, tipoDoc |-> <<>>,
      quadraFull |-> <<"A", "1", "y">>, servico |-> <<"D", "E", "S">>,
      remocoes |-> <<"0">>, date |-> DateCell(20000, 601)],
     [importador |-> <<"X">>, cntr |-> <<"G", "H", "4">>, tipoDoc |-> <<>>,
      quadraFull |-> <<"B", "2">>, servico |-> <<"D", "E", "S">>,
      remocoes |-> <<"7">>, date |-> <<>>] >>

DashboardFiles == ScheduleFiles \cup {ScheduleFileC}

\* Values of the date filter: none and two days
SelectedDates == {<<>>, <<19999>>, <<20000>>}

\* getTimezoneOffset() of the browser: UTC and UTC-3
TimezoneOffsets == {0, 180}

\* Instants at which serviceStats is evaluated
Nows == {20000 * MinutesPerDay + 600, 20000 * MinutesPerDay + 601}

ScheduleIds ==
  UNION {{processScheduleFile(f)[k].id : k \in 1..Len(processScheduleFile(f))} :
           f \in DashboardFiles}

InitDashboard ==
  /\ \E f \in DashboardFiles : scheduleData = processScheduleFile(f)
  /\ completedItems = {}
  /\ scheduleRead = <<>>
  /\ stockData = <<>>
  /\ planningState = [m \in StackerIds |-> <<>>]
  /\ activeStacker = "1"
  /\ viewQuadra = <<>>
  /\ dragData = <<>>
  /\ inflight = <<>>
  /\ updates = <<>>
  /\ last = NoOp
  /\ uploads = 0
  /\ ingested = {}
  /\ config = DefaultConfig
  /\ etaIndex = 0
  /\ etaOut = <<>>
  /\ viewIn = NoView
  /\ viewOut = <<>>

NextDashboard ==
  \/ \E id \in ScheduleIds : toggleItemCompletion(id)
  \/ Render
  \/ \E d \in SelectedDates, tz \in TimezoneOffsets, now \in Nows :
       RenderServiceStats(d, tz, now)
  \/ \E d \in SelectedDates, tz \in TimezoneOffsets : RenderQuadraStats(d, tz)
  \/ \E d \in SelectedDates, tz \in TimezoneOffsets : RenderExecutionStats(d, tz)

SpecDashboard == InitDashboard /\ [][NextDashboard]_vars

(***************************************************************************)
(* Properties of the dashboard statistics                                   *)
(***************************************************************************)
RECURSIVE SumSeq(_)
SumSeq(ns) == IF ns = <<>> THEN 0 ELSE Head(ns) + SumSeq(Tail(ns))

\* C23: the removal counts of the ServiceStat records, and those of the
\* QuadraStat records, sum to the total removal count of the filtered items;
\* their item counts sum to the number of filtered items, and every item
\* belongs to exactly one record
C23_TotalsPreserved ==
  /\ viewIn.fn = "serviceStats" =>
       /\ SumSeq([r \in 1..Len(viewOut) |-> viewOut[r].remocoes])
            = totalRemocoes(viewIn.filteredData)
       /\ SumSeq([r \in 1..Len(viewOut) |-> viewOut[r].count])
            = totalServices(viewIn.filteredData)
       /\ \A k \in 1..Len(viewIn.filteredData) :
            Cardinality({r \in 1..Len(viewOut) :
              viewOut[r].service = OrDefault(viewIn.filteredData[k].servico, OUTROS)}) = 1
  /\ viewIn.fn = "quadraStats" =>
       /\ SumSeq([r \in 1..Len(viewOut) |-> viewOut[r].remocoes])
            = totalRemocoes(viewIn.filteredData)
       /\ SumSeq([r \in 1..Len(viewOut) |-> viewOut[r].count])
            = totalServices(viewIn.filteredData)
       /\ \A k \in 1..Len(viewIn.filteredData) :
            Cardinality({r \in 1..Len(viewOut) :
              viewOut[r].quadra = quadraKey(viewIn.filteredData[k])}) = 1

\* Four items in the two quadras A1 and B2: 1 + 0 and 2 + 7 removals
C23_Witness ==
  /\ viewIn.fn = "quadraStats"
  /\ Len(viewIn.filteredData) = 4
  /\ Len(viewOut) = 2
  /\ viewOut[1] = [quadra |-> <<"B", "2">>, count |-> 2, remocoes |-> 9,
                   dates |-> <<[valid |-> TRUE, time |-> 20000 * MinutesPerDay + 600]>>]
  /\ viewOut[2].quadra = <<"A", "1">>
  /\ viewOut[2].remocoes = 1

\* The filtered items of a service
ItemsOfService(data, service) ==
  LET Of(item) == OrDefault(item.servico, OUTROS) = service IN SelectSeq(data, Of)

\* The item has a scheduled timestamp: a Date that holds a time value
HasTimestamp(item) == item._rawDate # <<>> /\ item._rawDate[1].valid

\* C24: late counts the items of the service whose timestamp is strictly
\* before the evaluation instant, onTime those whose timestamp is at or after
\* it or that have none, and late + onTime = count
C24_LateAndOnTime ==
  viewIn.fn = "serviceStats" =>
    \A r \in 1..Len(viewOut) :
      LET items == ItemsOfService(viewIn.filteredData, viewOut[r].service)
      IN  /\ viewOut[r].late =
               Cardinality({k \in 1..Len(items) :
                 HasTimestamp(items[k]) /\ items[k]._rawDate[1].time < viewIn.now})
          /\ viewOut[r].onTime =
               Cardinality({k \in 1..Len(items) :
                 \/ ~HasTimestamp(items[k])
                 \/ items[k]._rawDate[1].time >= viewIn.now})
          /\ viewOut[r].late + viewOut[r].onTime = viewOut[r].count

\* One item before the instant, one at it, one after it and one without date
C24_Witness ==
  /\ viewIn.fn = "serviceStats"
  /\ viewIn.now = 20000 * MinutesPerDay + 600
  /\ Len(viewOut) = 1
  /\ viewOut[1].count = 4
  /\ viewOut[1].late = 1
  /\ viewOut[1].onTime = 3

\* C25: servicesDone counts the filtered items whose identity is in the
\* completed set, done and pending services add up to the number of filtered
\* items and done and pending removals to their total removal count
C25_DonePendingPartition ==
  viewIn.fn = "executionStats" =>
    LET data == viewIn.filteredData
    IN  /\ viewOut.servicesDone =
             Cardinality({k \in 1..Len(data) : data[k].id \in viewIn.completedItems})
        /\ viewOut.servicesDone + viewOut.servicesPending = totalServices(data)
        /\ viewOut.removalsDone + viewOut.removalsPending = totalRemocoes(data)

\* Two of four items checked, one of them unchecked again before
C25_Witness ==
  /\ viewIn.fn = "executionStats"
  /\ Len(viewIn.filteredData) = 4
  /\ Cardinality(completedItems) = 2
  /\ viewIn.completedItems = completedItems
  /\ viewOut = [servicesDone |-> 2, servicesPending |-> 2,
                removalsDone |-> 9, removalsPending |-> 1]

(***************************************************************************)
(* Specification of Unassign and ClearQueue calls sharing one render        *)
(* A handler called again before the render that follows the first call     *)
(* reads the same planningState and activeStacker, and its updates join the *)
(* queue of pending updates.                                                *)
(***************************************************************************)
\* handleRemoveFromPlan called from the render a pending Unassign or
\* ClearQueue was called from
handleRemoveFromPlanAgain(itemId) ==
  /\ dragData = <<>>
  /\ updates # <<>>
  /\ last.op \in {"remove", "clear"}
  /\ Len(updates) = Len(ClearUpdates(<<>>, activeStacker))
  /\ updates' = updates \o RemoveUpdates(FindInPlan(activeStacker, itemId),
                                         activeStacker, itemId)
  /\ last' = [op |-> "remove", m |-> activeStacker, items |-> <<>>, id |-> itemId,
              ok |-> HasId(planningState[activeStacker], itemId)]
  /\ UNCHANGED <<scheduleVars, stockData, planningState, activeStacker, viewQuadra,
                 dragData, inflight, histVars, etaVars>>

\* handleClearPlan called from the render a pending Unassign was called from
handleClearPlanAgain ==
  /\ dragData = <<>>
  /\ updates # <<>>
  /\ last.op = "remove"
  /\ Len(updates) = Len(ClearUpdates(<<>>, activeStacker))
  /\ updates' = updates \o ClearUpdates(planningState[activeStacker], activeStacker)
  /\ last' = [op |-> "clear", m |-> activeStacker, items |-> planningState[activeStacker],
              id |-> <<>>, ok |-> TRUE]
  /\ UNCHANGED <<scheduleVars, stockData, planningState, activeStacker, viewQuadra,
                 dragData, inflight, histVars, etaVars>>

\* Queues of stacker 1 holding each unit at most once
BatchQueues ==
  {q \in PlanQueues : \A i, j \in 1..Len(q) : q[i].id = q[j].id => i = j}

InitBatch ==
  /\ scheduleData = <<>>
  /\ completedItems = {}
  /\ scheduleRead = <<>>
  /\ \E q \in BatchQueues :
       /\ planningState = [m \in StackerIds |-> IF m = "1" THEN q ELSE <<>>]
       /\ stockData = LET Left(x) == x.id \notin IdsOf(q)
                      IN  SelectSeq(processStockFile(StockFileB, <<>>), Left)
  /\ ingested = IdsOf(PlanUnits)
  /\ activeStacker = "1"
  /\ viewQuadra = <<>>
  /\ dragData = <<>>
  /\ inflight = <<>>
  /\ updates = <<>>
  /\ last = NoOp
  /\ uploads = Len(<<StockFileA, StockFileB>>)
  /\ config = DefaultConfig
  /\ etaIndex = 0
  /\ etaOut = <<>>
  /\ viewIn = NoView
  /\ viewOut = <<>>

NextBatch ==
  \/ \E id \in ItemIds : handleRemoveFromPlan(id)
  \/ handleClearPlan
  \/ \E id \in ItemIds : handleRemoveFromPlanAgain(id)
  \/ handleClearPlanAgain
  \/ Render

SpecBatch == InitBatch /\ [][NextBatch]_vars

\* Identities the pending updates take out of a queue
Unassigned(us) ==
  {id \in IdsOf(plannedItems) :
     \E k \in 1..Len(us) :
       /\ us[k].hook = "planningState"
       /\ \/ us[k].op = "removeId" /\ us[k].id = id
          \/ us[k].op = "clear" /\ InQueue(us[k].m, id)}

\* C27: an identity held once, in a queue, and unassigned by the calls made
\* from one render (one or two Unassign calls, or an Unassign and a
\* ClearQueue) is in the pool exactly once and in no queue after the render
\* that follows
C27_ReturnedOnce ==
  [][updates # <<>> /\ updates' = <<>> =>
       \A id \in Unassigned(updates) :
         Places(id) = 1 => /\ PoolCount(id)' = 1
                           /\ \A m \in StackerIds : ~InQueue(m, id)']_vars

(***************************************************************************)
(* App: handleScheduleUpload                                                *)
(***************************************************************************)
\* handleScheduleUpload up to its await: the file is read
StartScheduleUpload(file) ==
  /\ Idle
  /\ scheduleRead = <<>>
  /\ scheduleRead' = <<[items |-> processScheduleFile(file)]>>
  /\ last' = NoOp
  /\ UNCHANGED <<scheduleData, completedItems, stockData, planningState, activeStacker,
                 viewQuadra, dragData, inflight, updates, histVars, etaVars>>

\* handleScheduleUpload emptying the stock pool as well
ScheduleUploadUpdates_ClearStock(data) ==
  << [hook |-> "scheduleData", op |-> "set", items |-> data],
     [hook |-> "completedItems", op |-> "reset"],
     [hook |-> "stockData", op |-> "filterOut", items |-> stockData] >>

\* setScheduleData(data); setCompletedItems(new Set())
ScheduleUploadUpdates(data) ==
  << [hook |-> "scheduleData", op |-> "set", items |-> data],
     [hook |-> "completedItems", op |-> "reset"] >>

\* handleScheduleUpload after its await
FinishScheduleUpload ==
  /\ updates = <<>>
  /\ scheduleRead # <<>>
  /\ updates' = ScheduleUploadUpdates(scheduleRead[1].items)
  /\ scheduleRead' = <<>>
  /\ last' = [op |-> "schedule", m |-> activeStacker, items |-> <<>>, id |-> <<>>,
              ok |-> TRUE]
  /\ UNCHANGED <<scheduleData, completedItems, stockData, planningState, activeStacker,
                 viewQuadra, dragData, inflight, histVars, etaVars>>

(***************************************************************************)
(* Specification of schedule and stock ingestion                            *)
(***************************************************************************)
NextSchedule ==
  \/ \E f \in ScheduleFiles : StartScheduleUpload(f)
  \/ FinishScheduleUpload
  \/ \E id \in ScheduleIds : toggleItemCompletion(id)
  \/ \E f \in StockFiles : StartStockUpload(f)
  \/ FinishStockUpload
  \/ \E q \in Quadras, b \in Bays : DragStartTree(<<>>, q, b, 0)
  \/ handleDrop
  \/ Render

SpecSchedule == Init /\ [][NextSchedule]_vars

(***************************************************************************)
(* Properties of schedule ingestion                                         *)
(***************************************************************************)
\* The render that follows handleScheduleUpload is the next step
IngestingSchedule == updates # <<>> /\ last.op = "schedule"

\* C28: the completed set holds identities of items of the current schedule
\* only; the render after handleScheduleUpload replaces the schedule and
\* empties the set, and the render after toggleItemCompletion(id) adds id when
\* it is absent and removes it when it is present, so that toggling an
\* identity twice restores the set
C28_CompletedWithinSchedule ==
  /\ [](completedItems \subseteq IdsOf(scheduleData))
  /\ [][/\ IngestingSchedule /\ updates' = <<>>
             => scheduleData' = updates[1].items /\ completedItems' = {}
        /\ updates # <<>> /\ updates' = <<>> /\ updates[1].hook = "completedItems"
             /\ updates[1].op = "toggle"
             => /\ completedItems' =
                     IF updates[1].id \in completedItems
                       THEN completedItems \ {updates[1].id}
                       ELSE completedItems \cup {updates[1].id}
                /\ ApplyCompletedUpdate(updates[1], completedItems') = completedItems]_vars

\* An identity was checked and a schedule without it is about to be ingested
C28_Witness ==
  /\ IngestingSchedule
  /\ completedItems # {}
  /\ ~(completedItems \subseteq IdsOf(updates[1].items))

\* C29: the render after handleScheduleUpload changes neither the stock pool
\* nor a queue, and the stock items a stock file brings are those reconciled
\* against the schedule of the render handleStockUpload was called from
C29_ScheduleLeavesStock ==
  [][/\ IngestingSchedule /\ updates' = <<>>
          => stockData' = stockData /\ planningState' = planningState
     /\ inflight = <<>> /\ inflight' # <<>>
          => \E f \in StockFiles : inflight'[1].items = processStockFile(f, scheduleData)
     /\ updates # <<>> /\ updates' = <<>> /\ last.op = "stock"
          => stockData' = last.items /\ planningState' = planningState]_vars

\* A schedule row of the code AB1 was ingested after the stock unit AB1: the
\* unit, in the queue of stacker 1, still has no service
C29_Witness ==
  /\ updates = <<>>
  /\ \E k \in 1..Len(scheduleData) : scheduleData[k].cntr = <<"A", "B", "1">>
  /\ \E k \in 1..Len(planningState["1"]) :
       /\ planningState["1"][k].cntr = <<"A", "B", "1">>
       /\ planningState["1"][k].servico = SemAgendamento
  /\ stockData # <<>>

(***************************************************************************)
(* PlanningTab: the start time input                                        *)
(***************************************************************************)
\* The start time input setting the start of every stacker
SetStart_AllStackers(text) ==
  /\ Idle
  /\ config' = [m \in StackerIds |-> [config[m] EXCEPT !.start = text]]
  /\ etaIndex' = 0
  /\ etaOut' = <<>>
  /\ viewIn' = NoView
  /\ viewOut' = <<>>
  /\ UNCHANGED appVars

\* The start time input's onChange: start: e.target.value
SetStart(text) ==
  /\ Idle
  /\ config' = [config EXCEPT ![activeStacker].start = text]
  /\ etaIndex' = 0
  /\ etaOut' = <<>>
  /\ viewIn' = NoView
  /\ viewOut' = <<>>
  /\ UNCHANGED appVars

(***************************************************************************)
(* Specification of the three queues and configs                            *)
(***************************************************************************)
\* Values typed into the start time and MPH inputs
FrameStarts == {<<"0", "8", ":", "3", "0">>}

FrameRates == {<<"7">>}

NextFrame ==
  \/ \E m \in StackerIds : SelectStacker(m)
  \/ \E q \in Quadras, b \in Bays : DragStartTree(<<>>, q, b, 0)
  \/ handleDrop
  \/ \E id \in ItemIds : handleRemoveFromPlan(id)
  \/ handleClearPlan
  \/ \E text \in FrameRates : SetRate(text)
  \/ \E text \in FrameStarts : SetStart(text)
  \/ Render

SpecFrame == InitBatch /\ [][NextFrame]_vars

\* C30: the render after an Assign, Unassign or ClearQueue call on stacker m
\* leaves the queues of the other two stackers as they were, and a step that
\* changes the config changes the config of the active stacker only and
\* neither the stock pool nor a queue
C30_OtherStackersUntouched ==
  [][/\ updates # <<>> /\ updates' = <<>> /\ last.op \in PlanningOps
          => \A m \in StackerIds \ {last.m} : planningState'[m] = planningState[m]
     /\ config' # config
          => /\ stockData' = stockData
             /\ planningState' = planningState
             /\ \A m \in StackerIds \ {activeStacker} : config'[m] = config[m]]_vars

\* ClearQueue of stacker 2 is about to be committed while stacker 1 holds a
\* queue and the configs of stackers 1 and 2 were changed
C30_Witness ==
  /\ Committing("clear")
  /\ last.m = "2"
  /\ planningState["1"] # <<>>
  /\ planningState["2"] # <<>>
  /\ config["1"].mph = 7
  /\ config["2"].start = <<"0", "8", ":", "3", "0">>
  /\ config["3"] = DefaultConfig["3"]

====
